---- MODULE Spec2Model ----
(***************************************************************************)
(* A model of the core of reveal: the navigation slicer                    *)
(* (reveal/base.py), the hierarchy builder (reveal/main.py), the rule      *)
(* registry and detection engine (reveal/rules/__init__.py,                *)
(* reveal/rules/base.py) and the relationship registry (reveal/types.py).  *)
(*                                                                         *)
(* Every component is a state machine of its own over its own variables;   *)
(* a component's specification keeps the other components idle.            *)
(***************************************************************************)
EXTENDS Integers, Sequences, FiniteSets, TLC

VARIABLES
    \* FileAnalyzer._apply_semantic_slice (reveal/base.py)
    slice_pc,        \* "ready" before the call, "done" after it
    slice_items,     \* argument items
    slice_head,      \* argument head  (None or Some(n))
    slice_tail,      \* argument tail  (None or Some(n))
    slice_range,     \* argument range (None or Some(<<start, end>>))
    slice_result,    \* the returned list
    \* build_hierarchy (reveal/main.py)
    hier_pc,         \* "ready" before the call, "done" after it
    hier_structure,  \* argument structure: category -> list of elements
    hier_all,        \* all_items: the copied, sorted items, with children and is_child
    hier_result,     \* the returned list of root items (positions in all_items)
    \* RuleRegistry (reveal/rules/__init__.py)
    rules_disk,      \* the rule classes the rule directories hold, in discovery order
    _rules,          \* RuleRegistry._rules
    _discovered,     \* RuleRegistry._discovered
    rules_pc,        \* "ready", "got" (get_rules returned), "loop" (check_file's loop), "returned"
    arg_select,      \* argument select of the call
    arg_ignore,      \* argument ignore of the call
    arg_target,      \* argument file_path of check_file
    rules_local,     \* the list get_rules returned (check_file: its local `rules`)
    rules_i,         \* check_file: position of the loop in `rules`
    detections,      \* check_file: its local `detections`
    check_calls,     \* history: the check calls made, <<position in rules, outcome>>
    error_log,       \* logger.error records: the codes of the rules whose check raised
    \* RelationshipRegistry (reveal/types.py)
    relationships,   \* self.relationships: name -> RelationshipDef
    rel_pc,          \* "new", "registered", "traverse", "done", "index", "indexed"
    rel_name,        \* traverse_transitive: argument rel_name
    start_entity,    \* traverse_transitive: argument start_entity
    edges,           \* traverse_transitive: its local `edges`
    visited,         \* traverse_transitive: its local `visited`
    reachable,       \* traverse_transitive: its local `reachable`, returned at the end
    stack,           \* the active calls of traverse(entity): the entity and the loop's position
    expansions,      \* history: the entity ids added to visited, in order
    data_keys,       \* build_index: the keys of argument relationship_data, in dict order
    relationship_data, \* build_index: the caller's edge lists, name -> list, as they are now
    data_given,      \* history: the edge lists as they were at the call
    enhanced_own,    \* build_index: the lists of `enhanced` under keys the argument lacks
    index_i,         \* build_index: position of the loop in relationship_data.items()
    index_result,    \* the returned index (None before the return)
    \* TypeRegistry (reveal/types.py)
    types_given,     \* the analyzer's type definitions as declared: name -> Entity
    type_keys,       \* the keys of self.types, in dict order
    types,           \* self.types: name -> Entity (the Entity objects, as they are now)
    _inheritance_resolved, \* self._inheritance_resolved
    types_pc,        \* "new", "registered", "resolving", "returned", "cached", "raised"
    resolved,        \* resolve_inheritance: its local `resolved`
    in_progress,     \* resolve_inheritance: its local `in_progress`
    resolve_i,       \* resolve_inheritance: position of the loop over list(self.types.keys())
    resolve_stack,   \* the active calls of resolve_type: the type name and the position in the call
    types_first,     \* history: self.types as the first completed resolution left it
    registered_from, \* history: the last register_types call was given the "declared" or the "held" objects
    resolutions,     \* history: how many resolutions ran to their end, counted up to two
    raises,          \* history: how many resolutions raised, counted up to two
    \* Structure extractors (reveal/treesitter.py, reveal/analyzers/base.py,
    \* reveal/analyzers/python_analyzer.py, the archived treesitter_base.py)
    source,          \* the file's content: "valid" or "malformed" ("" when no analyzer runs)
    language,        \* the analyzer's language: "python", or one without a grammar ("" when no analyzer runs)
    tree,            \* self.tree: None, or the parse tree
    parse_error,     \* PythonAnalyzer.parse_error: None, or the message
    focus_start,     \* BaseAnalyzer.focus_start
    focus_end,       \* BaseAnalyzer.focus_end
    extract_pc,      \* "new" (before the parse), "parsed", "done", "raised"
    extract_op,      \* the operation that ran
    extract_arg,     \* its argument: a node type or a node
    extract_result,  \* what it returned
    \* TypeRegistry.validate_entity (reveal/types.py)
    validate_pc,     \* "ready" before the call, "done" after it, "raised" when it raised
    validated_type,  \* argument type_name
    entity_data,     \* argument entity_data: a dict from property names to the class of the value
    errors,          \* the list returned
    \* RuleRegistry.discover (reveal/rules/__init__.py), file by file
    rule_locations,  \* the built-in, user and project rule directories: whether each exists, and its files in scan order
    arg_force,       \* argument force of the last discover call
    discover_log,    \* the warning and error records of the last scan
    discover_pc,     \* "ready" before the first call, "done" after a call
    _rules_by_code,  \* RuleRegistry._rules_by_code, as the scan fills it
    \* JsonlAnalyzer (reveal/analyzers/jsonl.py)
    jsonl_lines,     \* self.lines: what each line holds
    jsonl_nav,       \* get_structure: arguments head, tail, range
    jsonl_num,       \* _extract_by_number: argument record_num
    jsonl_pc,        \* "ready", "structure" (get_structure returned), "extracted", "raised"
    jsonl_result,    \* what the call returned
    \* check_for_updates (reveal/main.py)
    now,             \* datetime.now(), in ticks
    cache_file,      \* ~/.config/reveal/last_update_check: absent, unreadable as a date, or the time written
    no_update_check, \* whether REVEAL_NO_UPDATE_CHECK is set
    requests,        \* history: the times at which urlopen was called
    \* TypeRegistry queries (reveal/types.py)
    query_types,     \* self.types of the registry that is asked
    query_call,      \* the query and its arguments
    query_pc,        \* "idle", "ready", "answered", or "raised"
    query_result,    \* what the query returned
    \* --stdin mode (reveal/main.py)
    stdin_lines,     \* sys.stdin: what each line names
    args_element,    \* whether an element was given on the command line
    stdin_i,         \* the line the loop is at
    stdin_pc,        \* "idle", "start", "loop", "exit0" or "exit1"
    handled,         \* history: the lines passed to handle_file, in call order
    warnings         \* the lines a warning was printed for

sliceVars == <<slice_pc, slice_items, slice_head, slice_tail, slice_range, slice_result>>
hierVars == <<hier_pc, hier_structure, hier_all, hier_result>>

rulesVars == <<rules_disk, _rules, _discovered, rules_pc, arg_select, arg_ignore, arg_target,
               rules_local, rules_i, detections, check_calls, error_log>>

travVars == <<rel_name, start_entity, edges, visited, reachable, stack, expansions>>
indexVars == <<data_keys, relationship_data, data_given, enhanced_own, index_i, index_result>>
relVars == <<relationships, rel_pc, travVars, indexVars>>

typesVars == <<types_given, type_keys, types, _inheritance_resolved, types_pc, resolved,
               in_progress, resolve_i, resolve_stack, types_first, registered_from, resolutions,
               raises>>

extractVars == <<source, language, tree, parse_error, focus_start, focus_end, extract_pc,
                 extract_op, extract_arg, extract_result>>

validVars == <<validate_pc, validated_type, entity_data, errors>>

discVars == <<rule_locations, arg_force, discover_log, discover_pc, _rules_by_code>>

jsonlVars == <<jsonl_lines, jsonl_nav, jsonl_num, jsonl_pc, jsonl_result>>

updVars == <<now, cache_file, no_update_check, requests>>

queryVars == <<query_types, query_call, query_pc, query_result>>

stdinVars == <<stdin_lines, args_element, stdin_i, stdin_pc, handled, warnings>>

vars == <<sliceVars, hierVars, rulesVars, relVars, typesVars, extractVars, validVars, discVars, jsonlVars, updVars, queryVars, stdinVars>>

(***************************************************************************)
(* Python values                                                           *)
(***************************************************************************)
\* Optional values: None, or Some(x) holding x
None == <<>>
Some(x) == <<x>>
Val(o) == o[1]

\* A dict whose key order matters: its [key, value] items in insertion order
\* dict.keys() as a list
Keys(dict) == [i \in 1..Len(dict) |-> dict[i].key]

\* key in dict
HasKey(dict, key) == \E i \in 1..Len(dict) : dict[i].key = key

\* dict[key]
Lookup(dict, key) == dict[CHOOSE i \in 1..Len(dict) : dict[i].key = key].value

\* dict.update(other): values replaced in place, new keys appended
DictUpdate(dict, other) ==
    LET New(item) == ~HasKey(dict, item.key)
    IN  [i \in 1..Len(dict) |->
            IF HasKey(other, dict[i].key)
            THEN [key |-> dict[i].key, value |-> Lookup(other, dict[i].key)]
            ELSE dict[i]]
        \o SelectSeq(other, New)

Min(a, b) == IF a < b THEN a ELSE b
Max(a, b) == IF a > b THEN a ELSE b

\* The index Python computes for one bound of s[lo:hi] on a list of length len:
\* a missing bound is the default, a negative one counts from the end, and
\* both are clamped to 0..len.
SliceIndex(len, idx, default) ==
    IF idx = None THEN default
    ELSE IF Val(idx) < 0 THEN Max(len + Val(idx), 0)
    ELSE Min(Val(idx), len)

\* s[lo:hi]
PySlice(s, lo, hi) ==
    LET i == SliceIndex(Len(s), lo, 0)
        j == SliceIndex(Len(s), hi, Len(s))
    IN  IF i < j THEN SubSeq(s, i + 1, j) ELSE <<>>

\* All sequences over S of length at most n
SeqsUpTo(S, n) == UNION {[1..k -> S] : k \in 0..n}

(***************************************************************************)
(* Navigation slicer: FileAnalyzer._apply_semantic_slice                   *)
(***************************************************************************)
MaxLen == 3      \* longest list sliced
MaxArg == 4        \* largest head, tail or range bound

ItemPool == {"a", "b"}
NavInts == (-1)..MaxArg

\* items[:head + 1]: the slice with its stop bound off by one
HeadSliceOffByOne(items, head) == PySlice(items, None, Some(head + 1))

\* items[:head]
HeadSlice(items, head) == PySlice(items, None, Some(head))

\* items[-tail:]
TailSlice(items, tail) == PySlice(items, Some(-tail), None)

\* items[start:end]: the slice without the conversion from 1-indexed positions
RangeSliceZeroIndexed(items, start, end) == PySlice(items, Some(start), Some(end))

\* items[start-1:end]
RangeSlice(items, start, end) == PySlice(items, Some(start - 1), Some(end))

_apply_semantic_slice(items, head, tail, range) ==
    IF Len(items) = 0 THEN items
    ELSE IF head # None THEN HeadSlice(items, Val(head))
    ELSE IF tail # None THEN TailSlice(items, Val(tail))
    ELSE IF range # None THEN RangeSlice(items, Val(range)[1], Val(range)[2])
    ELSE items

\* The navigation arguments a caller passes: at most one of head, tail, range
NavArgs ==
    {<<None, None, None>>}
    \cup {<<Some(n), None, None>> : n \in NavInts}
    \cup {<<None, Some(n), None>> : n \in NavInts}
    \cup {<<None, None, Some(<<a, b>>)>> : a \in 1..MaxArg, b \in 1..MaxArg}

\* No _apply_semantic_slice call in this behaviour
SliceIdle ==
    /\ slice_pc = "idle"
    /\ slice_items = <<>>
    /\ slice_head = None
    /\ slice_tail = None
    /\ slice_range = None
    /\ slice_result = <<>>

SliceInit ==
    /\ slice_pc = "ready"
    /\ slice_items = <<>>
    /\ slice_head = None
    /\ slice_tail = None
    /\ slice_range = None
    /\ slice_result = <<>>

ApplySemanticSlice ==
    /\ slice_pc = "ready"
    /\ \E items \in SeqsUpTo(ItemPool, MaxLen), nav \in NavArgs :
        /\ slice_items' = items
        /\ slice_head' = nav[1]
        /\ slice_tail' = nav[2]
        /\ slice_range' = nav[3]
        /\ slice_result' = _apply_semantic_slice(items, nav[1], nav[2], nav[3])
    /\ slice_pc' = "done"

SliceNext == ApplySemanticSlice /\ UNCHANGED <<hierVars, rulesVars, relVars, typesVars, extractVars, validVars, discVars, jsonlVars, updVars, queryVars, stdinVars>>

(***************************************************************************)
(* JSONL analyzer: JsonlAnalyzer.get_structure and _extract_by_number      *)
(*                                                                         *)
(* A line is known by what it holds: nothing but blanks, text that is not  *)
(* JSON, a JSON value that is not an object, an object of type 'user', or  *)
(* an object without a type. Previews and sources are left out.            *)
(***************************************************************************)
MaxJsonLines == 3      \* most lines before the run of records that ends a file
DEFAULT_LIMIT == 10

LineKinds == {"blank", "invalid", "scalar", "user", "untyped"}

\* The files: any lines, then no records or more of them than DEFAULT_LIMIT
JsonlFiles ==
    {head_lines \o [i \in 1..n |-> "user"] :
        head_lines \in SeqsUpTo(LineKinds, MaxJsonLines), n \in {0, DEFAULT_LIMIT + 1}}

\* obj.get('type', 'record')
RecType(line) == IF line = "untyped" THEN "record" ELSE line

RECURSIVE ParseRecords(_, _, _)
\* The first pass of get_structure from line i on: all_records and
\* total_records, or the AttributeError of obj.get on a value that is not
\* an object
ParseRecords(lines, i, pass) ==
    IF i > Len(lines) THEN pass
    ELSE IF lines[i] = "blank" THEN ParseRecords(lines, i + 1, pass)
    ELSE IF lines[i] = "invalid"
         THEN ParseRecords(lines, i + 1,
                  [pass EXCEPT !.all_records =
                      Append(@, [line |-> i, name |-> "Invalid JSON", number |-> None])])
    ELSE IF lines[i] = "scalar" THEN [pass EXCEPT !.raised = TRUE]
    ELSE ParseRecords(lines, i + 1,
             [pass EXCEPT !.total_records = @ + 1,
                          !.all_records =
                              Append(@, [line |-> i, name |-> RecType(lines[i]),
                                         number |-> Some(pass.total_records + 1)])])

FirstPass(lines) ==
    ParseRecords(lines, 1, [all_records |-> <<>>, total_records |-> 0, raised |-> FALSE])

\* The truth value of a head or tail argument: None and 0 are false
TruthyArg(n) == n # None /\ Val(n) # 0

\* 'Summary: {total_records} records'
Summary(total_records) == [line |-> 0, name |-> "Summary", number |-> Some(total_records)]

\* JsonlAnalyzer.get_structure: structure['records'], or None when it raised
jsonl_get_structure(lines, head, tail, range) ==
    LET pass == FirstPass(lines)
        selected_records ==
            IF TruthyArg(head) \/ TruthyArg(tail) \/ range # None
            THEN _apply_semantic_slice(pass.all_records, head, tail, range)
            ELSE PySlice(pass.all_records, None, Some(DEFAULT_LIMIT))
    IN  IF pass.raised THEN None
        ELSE Some(<<Summary(pass.total_records)>> \o selected_records)

RECURSIVE ExtractFrom(_, _, _, _)
\* _extract_by_number from line i on, `current` lines counted so far
ExtractFrom(lines, i, current, record_num) ==
    IF i > Len(lines) THEN None
    ELSE IF lines[i] = "blank" THEN ExtractFrom(lines, i + 1, current, record_num)
    ELSE IF current + 1 = record_num
         THEN Some([line_start |-> i, line_end |-> i, invalid |-> lines[i] = "invalid"])
    ELSE ExtractFrom(lines, i + 1, current + 1, record_num)

\* JsonlAnalyzer._extract_by_number
_extract_by_number(lines, record_num) == ExtractFrom(lines, 1, 0, record_num)

\* No JsonlAnalyzer in this behaviour
JsonlIdle ==
    /\ jsonl_lines = <<>>
    /\ jsonl_nav = <<None, None, None>>
    /\ jsonl_num = 0
    /\ jsonl_pc = "idle"
    /\ jsonl_result = None

\* A JsonlAnalyzer on a file
JsonlInit ==
    /\ jsonl_lines \in JsonlFiles
    /\ jsonl_nav = <<None, None, None>>
    /\ jsonl_num = 0
    /\ jsonl_pc = "ready"
    /\ jsonl_result = None

\* get_structure(head, tail, range)
JsonlGetStructure ==
    /\ jsonl_pc = "ready"
    /\ \E nav \in NavArgs :
        /\ jsonl_nav' = nav
        /\ jsonl_result' = jsonl_get_structure(jsonl_lines, nav[1], nav[2], nav[3])
    /\ jsonl_pc' = IF jsonl_result' = None THEN "raised" ELSE "structure"
    /\ UNCHANGED <<jsonl_lines, jsonl_num>>

\* extract_element('record', name) with a name that is a number
JsonlExtractByNumber ==
    /\ jsonl_pc = "ready"
    /\ \E record_num \in 0..(Len(jsonl_lines) + 1) :
        /\ jsonl_num' = record_num
        /\ jsonl_result' = _extract_by_number(jsonl_lines, record_num)
    /\ jsonl_pc' = "extracted"
    /\ UNCHANGED <<jsonl_lines, jsonl_nav>>

JsonlNext ==
    \/ JsonlGetStructure /\ UNCHANGED <<sliceVars, hierVars, rulesVars, relVars, typesVars, extractVars, validVars, discVars, updVars, queryVars, stdinVars>>
    \/ JsonlExtractByNumber /\ UNCHANGED <<sliceVars, hierVars, rulesVars, relVars, typesVars, extractVars, validVars, discVars, updVars, queryVars, stdinVars>>

(***************************************************************************)
(* Update check: check_for_updates                                         *)
(***************************************************************************)
MaxTime == 4         \* the last tick of the clock
MaxRequests == 3     \* most requests recorded
Day == 2             \* timedelta(days=1), in ticks

Absent == [state |-> "absent", time |-> 0]
Invalid == [state |-> "invalid", time |-> 0]
Written(t) == [state |-> "written", time |-> t]

\* if cache_file.exists(): ... if datetime.now() - last_check < timedelta(days=1): return
CheckedRecently(file, t) == file.state = "written" /\ t - file.time < Day

\* A test that never finds a recent check
CheckedRecentlyNever(file, t) == FALSE

\* No check_for_updates call in this behaviour
UpdIdle ==
    /\ now = 0
    /\ cache_file = Absent
    /\ no_update_check = TRUE
    /\ requests = <<>>

\* A first run: no cache file, or one that does not hold a date
UpdInit ==
    /\ now = 0
    /\ cache_file \in {Absent, Invalid}
    /\ no_update_check \in BOOLEAN
    /\ requests = <<>>

\* Time passes between two runs
Tick ==
    /\ now < MaxTime
    /\ now' = now + 1
    /\ UNCHANGED <<cache_file, no_update_check, requests>>

\* check_for_updates returning before the request: opted out, the cache
\* directory cannot be made, or checked less than a day ago
CheckForUpdatesSkip ==
    /\ \E mkdir_ok \in BOOLEAN :
        IF no_update_check THEN TRUE
        ELSE IF ~mkdir_ok THEN TRUE
        ELSE CheckedRecently(cache_file, now)
    /\ UNCHANGED <<now, cache_file, no_update_check, requests>>

\* check_for_updates issuing the request: when urlopen or the parsing of the
\* response raises, or write_text does, the cache file stays as it was
CheckForUpdatesRequest ==
    /\ ~no_update_check
    /\ IF CheckedRecently(cache_file, now) THEN FALSE ELSE TRUE
    /\ Len(requests) < MaxRequests
    /\ requests' = Append(requests, now)
    /\ \E succeeded \in BOOLEAN :
        cache_file' = IF succeeded THEN Written(now) ELSE cache_file
    /\ UNCHANGED <<now, no_update_check>>

UpdateNext ==
    \/ Tick /\ UNCHANGED <<sliceVars, hierVars, rulesVars, relVars, typesVars, extractVars, validVars, discVars, jsonlVars, queryVars, stdinVars>>
    \/ CheckForUpdatesSkip /\ UNCHANGED <<sliceVars, hierVars, rulesVars, relVars, typesVars, extractVars, validVars, discVars, jsonlVars, queryVars, stdinVars>>
    \/ CheckForUpdatesRequest /\ UNCHANGED <<sliceVars, hierVars, rulesVars, relVars, typesVars, extractVars, validVars, discVars, jsonlVars, queryVars, stdinVars>>

(***************************************************************************)
(* --stdin mode: _main_impl, handle_file                                   *)
(***************************************************************************)
MaxStdinLines == 3   \* most lines read from stdin

\* What a line of stdin names: nothing (a blank line), a missing path, a
\* directory, a file an analyzer is registered for, a file without analyzer,
\* or a path that exists and is neither directory nor regular file
PathKinds == {"blank", "missing", "dir", "file", "unsupported", "special"}

\* path.exists()
Exists(kind) == kind \in {"dir", "file", "unsupported", "special"}

\* path.is_dir()
IsDir(kind) == kind = "dir"

\* path.is_file()
IsFile(kind) == kind \in {"file", "unsupported"}

\* handle_file: get_analyzer(path) returns None and sys.exit(1) is called
HandleFileExits(kind) == kind = "unsupported"

\* No --stdin run in this behaviour
StdinIdle ==
    /\ stdin_lines = <<>>
    /\ args_element = FALSE
    /\ stdin_i = 0
    /\ stdin_pc = "idle"
    /\ handled = <<>>
    /\ warnings = <<>>

\* reveal --stdin, with or without an element argument
StdinInit ==
    /\ stdin_lines \in SeqsUpTo(PathKinds, MaxStdinLines)
    /\ args_element \in BOOLEAN
    /\ stdin_i = 0
    /\ stdin_pc = "start"
    /\ handled = <<>>
    /\ warnings = <<>>

\* if args.element: print error; sys.exit(1) - else the loop starts
StdinStart ==
    /\ stdin_pc = "start"
    /\ stdin_pc' = IF args_element THEN "exit1" ELSE "loop"
    /\ stdin_i' = IF args_element THEN 0 ELSE 1
    /\ UNCHANGED <<stdin_lines, args_element, handled, warnings>>

\* The loop body for a line that is skipped: blank, missing (warning),
\* directory (warning), or neither directory nor file
StdinSkip ==
    /\ stdin_pc = "loop"
    /\ stdin_i <= Len(stdin_lines)
    /\ LET kind == stdin_lines[stdin_i]
       IN  /\ kind = "blank" \/ ~Exists(kind) \/ IsDir(kind) \/ ~IsFile(kind)
           /\ warnings' = IF kind # "blank" /\ (~Exists(kind) \/ IsDir(kind))
                           THEN Append(warnings, stdin_i)
                           ELSE warnings
    /\ stdin_i' = stdin_i + 1
    /\ UNCHANGED <<stdin_lines, args_element, stdin_pc, handled>>

\* The loop body for a regular file: handle_file(str(path), ...), which
\* returns or ends the process with sys.exit(1)
StdinHandleFile ==
    /\ stdin_pc = "loop"
    /\ stdin_i <= Len(stdin_lines)
    /\ LET kind == stdin_lines[stdin_i]
       IN  /\ kind # "blank" /\ Exists(kind) /\ ~IsDir(kind) /\ IsFile(kind)
           /\ stdin_pc' = IF HandleFileExits(kind) THEN "exit1" ELSE "loop"
    /\ handled' = Append(handled, stdin_i)
    /\ stdin_i' = stdin_i + 1
    /\ UNCHANGED <<stdin_lines, args_element, warnings>>

\* After the last line: sys.exit(0)
StdinExit ==
    /\ stdin_pc = "loop"
    /\ stdin_i > Len(stdin_lines)
    /\ stdin_pc' = "exit0"
    /\ UNCHANGED <<stdin_lines, args_element, stdin_i, handled, warnings>>

StdinNext ==
    \/ StdinStart /\ UNCHANGED <<sliceVars, hierVars, rulesVars, relVars, typesVars, extractVars, validVars, discVars, jsonlVars, updVars, queryVars>>
    \/ StdinSkip /\ UNCHANGED <<sliceVars, hierVars, rulesVars, relVars, typesVars, extractVars, validVars, discVars, jsonlVars, updVars, queryVars>>
    \/ StdinHandleFile /\ UNCHANGED <<sliceVars, hierVars, rulesVars, relVars, typesVars, extractVars, validVars, discVars, jsonlVars, updVars, queryVars>>
    \/ StdinExit /\ UNCHANGED <<sliceVars, hierVars, rulesVars, relVars, typesVars, extractVars, validVars, discVars, jsonlVars, updVars, queryVars>>

(***************************************************************************)
(* Hierarchy builder: build_hierarchy                                      *)
(***************************************************************************)
MaxElems == 3      \* most elements in one structure
MaxLine == 3       \* last source line

\* The categories of a structure, in the order structure.items() yields them
Categories == <<"classes", "functions">>

\* An element: a dict whose 'line' and 'line_end' keys may be missing
Elements ==
    {[line |-> None, line_end |-> None]}
    \cup {[line |-> Some(l), line_end |-> e] :
            l \in 1..MaxLine, e \in {None} \cup {Some(x) : x \in 1..MaxLine}}

\* Analyzers emit line <= line_end
WellFormed(el) ==
    (el.line # None /\ el.line_end # None) => Val(el.line) <= Val(el.line_end)

\* item.get('line', 0)
GetLine(item) == IF item.line = None THEN 0 ELSE Val(item.line)

\* item.get('line_end', item_start)
GetLineEnd(item) == IF item.line_end = None THEN GetLine(item) ELSE Val(item.line_end)

\* The copy of item `k` of category `c`, with 'category' and 'children' set;
\* src identifies the input element the copy was made from.
CopyItem(structure, c, k) ==
    [line |-> structure[c][k].line, line_end |-> structure[c][k].line_end,
     category |-> c, src |-> <<c, k>>, children |-> <<>>, is_child |-> None]

RECURSIVE CollectItems(_, _)
\* all_items after the collecting loops, for the categories ci..
CollectItems(structure, ci) ==
    IF ci > Len(Categories) THEN <<>>
    ELSE [k \in 1..Len(structure[Categories[ci]]) |-> CopyItem(structure, Categories[ci], k)]
         \o CollectItems(structure, ci + 1)

\* x inserted into the sorted list after every item whose line is <= x's
InsertByLine(sorted, x) ==
    LET k == Cardinality({j \in 1..Len(sorted) : GetLine(sorted[j]) <= GetLine(x)})
    IN  SubSeq(sorted, 1, k) \o <<x>> \o SubSeq(sorted, k + 1, Len(sorted))

RECURSIVE SortByLine(_)
\* all_items.sort(key=lambda x: x.get('line', 0)): a stable sort
SortByLine(items) ==
    IF items = <<>> THEN <<>>
    ELSE InsertByLine(SortByLine(SubSeq(items, 1, Len(items) - 1)), items[Len(items)])

\* A containment test that also accepts a candidate starting on the item's line
ContainsItemNotStrict(candidate, item) ==
    GetLine(candidate) <= GetLine(item) /\ GetLineEnd(candidate) >= GetLineEnd(item)

\* candidate_start < item_start and candidate_end >= item_end
ContainsItem(candidate, item) ==
    GetLine(candidate) < GetLine(item) /\ GetLineEnd(candidate) >= GetLineEnd(item)

RECURSIVE FindParent(_, _, _)
\* The scan for j in range(i - 1, -1, -1), from position j down: the first
\* candidate that contains item i, or 0 (parent = None)
FindParent(all, i, j) ==
    IF j < 1 THEN 0
    ELSE IF ContainsItem(all[j], all[i]) THEN j
    ELSE FindParent(all, i, j - 1)

\* One pass of the loop body for item i
AttachItem(all, i) ==
    LET parent == FindParent(all, i, i - 1)
    IN  IF parent # 0
        THEN [all EXCEPT ![parent].children = Append(@, i), ![i].is_child = Some(TRUE)]
        ELSE [all EXCEPT ![i].is_child = Some(FALSE)]

RECURSIVE AttachAll(_, _)
\* for i, item in enumerate(all_items), from item i on
AttachAll(all, i) ==
    IF i > Len(all) THEN all ELSE AttachAll(AttachItem(all, i), i + 1)

\* Every item returned, children included
RootsUnfiltered(all) == [i \in 1..Len(all) |-> i]

\* [item for item in all_items if not item.get('is_child', False)]
Roots(all) ==
    SelectSeq([i \in 1..Len(all) |-> i],
              LAMBDA i : ~(IF all[i].is_child = None THEN FALSE ELSE Val(all[i].is_child)))

\* The structure holding the elements els, the first k of them in the first
\* category and the rest in the second
StructureOf(els, k) ==
    [c \in {Categories[1], Categories[2]} |->
        IF c = Categories[1] THEN SubSeq(els, 1, k) ELSE SubSeq(els, k + 1, Len(els))]

\* No build_hierarchy call in this behaviour
HierIdle ==
    /\ hier_pc = "idle"
    /\ hier_structure = StructureOf(<<>>, 0)
    /\ hier_all = <<>>
    /\ hier_result = <<>>

\* The structure a caller passes: at most MaxElems well-formed elements
HierInit ==
    /\ hier_pc = "ready"
    /\ \E els \in SeqsUpTo({el \in Elements : WellFormed(el)}, MaxElems), k \in 0..MaxElems :
        /\ k <= Len(els)
        /\ hier_structure = StructureOf(els, k)
    /\ hier_all = <<>>
    /\ hier_result = <<>>

build_hierarchy(structure) ==
    AttachAll(SortByLine(CollectItems(structure, 1)), 1)

BuildHierarchy ==
    /\ hier_pc = "ready"
    /\ hier_all' = build_hierarchy(hier_structure)
    /\ hier_result' = Roots(hier_all')
    /\ hier_pc' = "done"
    /\ UNCHANGED hier_structure

HierNext == BuildHierarchy /\ UNCHANGED <<sliceVars, rulesVars, relVars, typesVars, extractVars, validVars, discVars, jsonlVars, updVars, queryVars, stdinVars>>

(***************************************************************************)
(* Rule registry and detection engine: RuleRegistry, BaseRule              *)
(***************************************************************************)
MaxRules == 3        \* most rule classes on disk
MaxPatterns == 2     \* longest select or ignore list given to get_rules
MaxDetections == 1   \* most detections one check call returns

\* Strings that are compared by prefix are sequences of characters
IsPrefix(p, str) == Len(p) <= Len(str) /\ SubSeq(str, 1, Len(p)) = p

\* RulePrefix: the values of the enumeration
RulePrefixValues ==
    {<<"E">>, <<"S">>, <<"C">>, <<"B">>, <<"P", "E", "R", "F">>, <<"M">>, <<"I">>, <<"U">>, <<"R">>}

\* The rule classes that may be installed: code, category (a RulePrefix
\* value or None), enabled, file_patterns, uri_patterns
RuleClasses == <<
    [code |-> <<"B", "0", "0", "1">>, category |-> Some(<<"B">>), enabled |-> TRUE,
     file_patterns |-> <<".py">>, uri_patterns |-> <<>>],
    [code |-> <<"B", "0", "0", "2">>, category |-> Some(<<"B">>), enabled |-> TRUE,
     file_patterns |-> <<"*">>, uri_patterns |-> <<>>],
    [code |-> <<"C", "9", "0", "1">>, category |-> Some(<<"C">>), enabled |-> TRUE,
     file_patterns |-> <<"*">>, uri_patterns |-> <<>>],
    [code |-> <<"S", "7", "0", "1">>, category |-> Some(<<"S">>), enabled |-> TRUE,
     file_patterns |-> <<"Dockerfile", ".dockerfile">>, uri_patterns |-> <<"^docker\\.io/.*">>],
    [code |-> <<"N", "8", "0", "1">>, category |-> Some(<<"B">>), enabled |-> TRUE,
     file_patterns |-> <<"*">>, uri_patterns |-> <<>>],
    [code |-> <<"B", "0", "0", "3">>, category |-> None, enabled |-> FALSE,
     file_patterns |-> <<".py">>, uri_patterns |-> <<>>],
    [code |-> <<"U", "5", "0", "1">>, category |-> Some(<<"U">>), enabled |-> TRUE,
     file_patterns |-> <<"*">>, uri_patterns |-> <<"[">>] >>

\* The targets checked: the string, and Path(target).name and .suffix
Targets == {
    [text |-> "src/APP.PY", name |-> "APP.PY", suffix |-> ".PY"],
    [text |-> "Dockerfile", name |-> "Dockerfile", suffix |-> ""],
    [text |-> "docker.io/nginx", name |-> "nginx", suffix |-> ""] }

\* str.lower() on the suffixes of Targets
Lower(str) == IF str = ".PY" THEN ".py" ELSE str

\* re.match(pattern, target) on the uri patterns of RuleClasses
ReMatch(pattern, text) == pattern = "^docker\\.io/.*" /\ text = "docker.io/nginx"

\* re.match(pattern, target) raising re.error: "[" is no regular expression
ReRaises(pattern) == pattern = "["

\* matches_target raising: the uri patterns are tried in order, before the
\* file patterns, and the first that matches ends the loop
MatchRaises(rule, target) ==
    \E k \in 1..Len(rule.uri_patterns) :
        /\ ReRaises(rule.uri_patterns[k])
        /\ \A j \in 1..(k - 1) : ~ReMatch(rule.uri_patterns[j], target.text)

\* One pattern of _matches_patterns against a rule, without the prefix match
MatchesPatternExactOnly(rule, pattern) ==
    \/ rule.code = pattern
    \/ pattern \in RulePrefixValues /\ rule.category = Some(pattern)

\* The loop body of _matches_patterns: exact, prefix or category match
MatchesPattern(rule, pattern) ==
    \/ rule.code = pattern
    \/ IsPrefix(pattern, rule.code)
    \/ pattern \in RulePrefixValues /\ rule.category = Some(pattern)

_matches_patterns(rule, patterns) ==
    \E k \in 1..Len(patterns) : MatchesPattern(rule, patterns[k])

\* `if select:` / `if ignore:` - None and the empty list are both false
Truthy(list) == list # None /\ Len(Val(list)) > 0

get_rules(registry, select, ignore) ==
    LET selected == IF Truthy(select)
                    THEN SelectSeq(registry, LAMBDA r : _matches_patterns(r, Val(select)))
                    ELSE registry
        kept == IF Truthy(ignore)
                THEN SelectSeq(selected, LAMBDA r : ~_matches_patterns(r, Val(ignore)))
                ELSE selected
    IN  SelectSeq(kept, LAMBDA r : r.enabled)

\* BaseRule.matches_target
matches_target(rule, target) ==
    \/ \E k \in 1..Len(rule.uri_patterns) : ReMatch(rule.uri_patterns[k], target.text)
    \/ rule.file_patterns = <<"*">>
    \/ \E k \in 1..Len(rule.file_patterns) :
          \/ rule.file_patterns[k] = Lower(target.suffix)
          \/ rule.file_patterns[k] = target.name

\* check_file's loop never skipping a rule
SkipsRuleNever(rule, target) == FALSE

\* check_file: `if not rule_class().matches_target(file_path): continue`
SkipsRule(rule, target) == ~matches_target(rule, target)

\* The outcomes of rule.check: the exception it raises, or the detections it returns
Raise == [raised |-> TRUE, returned |-> <<>>]
Detection(rule, k) == [rule_code |-> rule.code, line |-> k]
CheckOutcomes(rule) ==
    {Raise} \cup {[raised |-> FALSE, returned |-> [k \in 1..n |-> Detection(rule, k)]] :
                    n \in 0..MaxDetections}

\* check_file's try block with an except clause that starts the list afresh
ExtendDetectionsOrReset(dets, outcome) ==
    IF outcome.raised THEN <<>> ELSE dets \o outcome.returned

\* check_file's try block: detections.extend(rule_detections), reached only
\* when check returned
ExtendDetections(dets, outcome) ==
    IF outcome.raised THEN dets ELSE dets \o outcome.returned

\* The positions of the rule classes on disk: the first ones of RuleClasses
\* in any selection of at most MaxRules
RulesOnDisk ==
    {SelectSeq(RuleClasses, LAMBDA r : r \in S) :
        S \in {T \in SUBSET {RuleClasses[k] : k \in 1..Len(RuleClasses)} : Cardinality(T) <= MaxRules}}

\* The select and ignore lists given to get_rules
PatternPool == {<<"B">>, <<"B", "0">>, <<"B", "0", "0", "1">>, <<"C">>}
PatternLists == {None} \cup {Some(l) : l \in SeqsUpTo(PatternPool, MaxPatterns)}

\* The select and ignore lists given to check_file
CheckSelects == {None, Some(<<<<"B">>>>), Some(<<<<"C">>, <<"B", "0", "0", "1">>>>), Some(<<<<"S">>>>)}
CheckIgnores == {None, Some(<<>>), Some(<<<<"B", "0", "0", "2">>>>)}

\* No RuleRegistry call in this behaviour
RulesIdle ==
    /\ rules_disk = <<>>
    /\ _rules = <<>>
    /\ _discovered = FALSE
    /\ rules_pc = "idle"
    /\ arg_select = None
    /\ arg_ignore = None
    /\ arg_target = None
    /\ rules_local = <<>>
    /\ rules_i = 0
    /\ detections = <<>>
    /\ check_calls = <<>>
    /\ error_log = <<>>

\* The class attributes of RuleRegistry as the class body sets them
RulesInit ==
    /\ rules_disk \in RulesOnDisk
    /\ _rules = <<>>
    /\ _discovered = FALSE
    /\ rules_pc = "ready"
    /\ arg_select = None
    /\ arg_ignore = None
    /\ arg_target = None
    /\ rules_local = <<>>
    /\ rules_i = 0
    /\ detections = <<>>
    /\ check_calls = <<>>
    /\ error_log = <<>>

\* RuleRegistry.discover(): _rules once the rule directories are scanned
discover(registry, discovered, disk) == IF discovered THEN registry ELSE disk

Discover ==
    /\ rules_pc = "ready"
    /\ ~_discovered
    /\ _rules' = discover(_rules, _discovered, rules_disk)
    /\ _discovered' = TRUE
    /\ UNCHANGED <<rules_disk, rules_pc, arg_select, arg_ignore, arg_target, rules_local,
                   rules_i, detections, check_calls, error_log>>

\* RuleRegistry.get_rules(select, ignore)
GetRules ==
    /\ rules_pc = "ready"
    /\ \E select \in PatternLists, ignore \in PatternLists :
        /\ arg_select' = select
        /\ arg_ignore' = ignore
        /\ _rules' = discover(_rules, _discovered, rules_disk)
        /\ rules_local' = get_rules(_rules', select, ignore)
    /\ _discovered' = TRUE
    /\ rules_pc' = "got"
    /\ UNCHANGED <<rules_disk, arg_target, rules_i, detections, check_calls, error_log>>

\* RuleRegistry.check_file, up to its loop
CheckFileCall ==
    /\ rules_pc = "ready"
    /\ \E select \in CheckSelects, ignore \in CheckIgnores, target \in Targets :
        /\ arg_select' = select
        /\ arg_ignore' = ignore
        /\ arg_target' = Some(target)
        /\ _rules' = discover(_rules, _discovered, rules_disk)
        /\ rules_local' = get_rules(_rules', select, ignore)
    /\ _discovered' = TRUE
    /\ detections' = <<>>
    /\ rules_i' = 1
    /\ rules_pc' = "loop"
    /\ UNCHANGED <<rules_disk, check_calls, error_log>>

\* check_file's loop: a rule that does not apply to the target
CheckFileSkip ==
    /\ rules_pc = "loop"
    /\ rules_i <= Len(rules_local)
    /\ ~MatchRaises(rules_local[rules_i], Val(arg_target))
    /\ SkipsRule(rules_local[rules_i], Val(arg_target))
    /\ rules_i' = rules_i + 1
    /\ UNCHANGED <<rules_disk, _rules, _discovered, rules_pc, arg_select, arg_ignore, arg_target,
                   rules_local, detections, check_calls, error_log>>

\* check_file's loop: a rule that applies is checked, inside try/except
CheckFileCheck ==
    /\ rules_pc = "loop"
    /\ rules_i <= Len(rules_local)
    /\ ~MatchRaises(rules_local[rules_i], Val(arg_target))
    /\ ~SkipsRule(rules_local[rules_i], Val(arg_target))
    /\ \E outcome \in CheckOutcomes(rules_local[rules_i]) :
        /\ check_calls' = Append(check_calls, <<rules_i, outcome>>)
        /\ detections' = ExtendDetections(detections, outcome)
        /\ error_log' = IF outcome.raised
                        THEN Append(error_log, rules_local[rules_i].code)
                        ELSE error_log
    /\ rules_i' = rules_i + 1
    /\ UNCHANGED <<rules_disk, _rules, _discovered, rules_pc, arg_select, arg_ignore, arg_target,
                   rules_local>>

\* check_file's loop: rule_class().matches_target(file_path) raises, outside
\* the try block, and the exception leaves check_file
CheckFileRaise ==
    /\ rules_pc = "loop"
    /\ rules_i <= Len(rules_local)
    /\ MatchRaises(rules_local[rules_i], Val(arg_target))
    /\ rules_pc' = "raised"
    /\ UNCHANGED <<rules_disk, _rules, _discovered, arg_select, arg_ignore, arg_target,
                   rules_local, rules_i, detections, check_calls, error_log>>

\* check_file: return detections
CheckFileReturn ==
    /\ rules_pc = "loop"
    /\ rules_i > Len(rules_local)
    /\ rules_pc' = "returned"
    /\ UNCHANGED <<rules_disk, _rules, _discovered, arg_select, arg_ignore, arg_target,
                   rules_local, rules_i, detections, check_calls, error_log>>

RulesNext ==
    \/ Discover /\ UNCHANGED <<sliceVars, hierVars, relVars, typesVars, extractVars, validVars, discVars, jsonlVars, updVars, queryVars, stdinVars>>
    \/ GetRules /\ UNCHANGED <<sliceVars, hierVars, relVars, typesVars, extractVars, validVars, discVars, jsonlVars, updVars, queryVars, stdinVars>>
    \/ CheckFileCall /\ UNCHANGED <<sliceVars, hierVars, relVars, typesVars, extractVars, validVars, discVars, jsonlVars, updVars, queryVars, stdinVars>>
    \/ CheckFileSkip /\ UNCHANGED <<sliceVars, hierVars, relVars, typesVars, extractVars, validVars, discVars, jsonlVars, updVars, queryVars, stdinVars>>
    \/ CheckFileCheck /\ UNCHANGED <<sliceVars, hierVars, relVars, typesVars, extractVars, validVars, discVars, jsonlVars, updVars, queryVars, stdinVars>>
    \/ CheckFileRaise /\ UNCHANGED <<sliceVars, hierVars, relVars, typesVars, extractVars, validVars, discVars, jsonlVars, updVars, queryVars, stdinVars>>
    \/ CheckFileReturn /\ UNCHANGED <<sliceVars, hierVars, relVars, typesVars, extractVars, validVars, discVars, jsonlVars, updVars, queryVars, stdinVars>>

(***************************************************************************)
(* Rule discovery: RuleRegistry.discover and _discover_dir                 *)
(***************************************************************************)
MaxRuleFiles == 3    \* most entries in the rule directories together

\* A second rule class that gives the code of RuleClasses[1], with file
\* patterns of its own
OverridingRule == [RuleClasses[1] EXCEPT !.file_patterns = <<"*">>]

\* The rule classes the modules of the rule directories define
DiscoverableRules == {RuleClasses[1], RuleClasses[2], OverridingRule}

\* What the scan meets: an entry of the rule directory that is not a
\* directory or starts with '_', a file whose stem starts with '_', a module
\* whose import raises, a module without a valid rule class named after the
\* file, and a module holding its rule class
FileEntries ==
    {[kind |-> k, rule |-> None] : k \in {"subdir_skipped", "file_skipped", "raises", "invalid"}}
    \cup {[kind |-> "rule", rule |-> Some(r)] : r \in DiscoverableRules}

\* The body of the try block for one module, with an except clause that
\* empties the registry
LoadFileOrReset(registry, file) ==
    IF file.kind = "rule" THEN Append(registry, Val(file.rule))
    ELSE IF file.kind = "raises" THEN <<>>
    ELSE registry

\* The body of the try block for one module: cls._rules.append(rule_class)
\* when the module holds a valid rule class
LoadFile(registry, file) ==
    IF file.kind = "rule" THEN Append(registry, Val(file.rule)) ELSE registry

\* The body of the try block for one module:
\* cls._rules_by_code[rule_class.code] = rule_class
IndexFile(by_code, file) ==
    IF file.kind = "rule"
    THEN DictUpdate(by_code, <<[key |-> Val(file.rule).code, value |-> Val(file.rule)]>>)
    ELSE by_code

\* RuleRegistry.get_rule once discovered: cls._rules_by_code.get(code)
get_rule(by_code, code) ==
    IF HasKey(by_code, code) THEN Some(Lookup(by_code, code)) ELSE None

\* logger.warning for an invalid module, logger.error for one that raised
LogFile(log, file) ==
    IF file.kind = "invalid" THEN Append(log, "warning")
    ELSE IF file.kind = "raises" THEN Append(log, "error")
    ELSE log

RECURSIVE _discover_dir(_, _, _)
\* _discover_dir from entry k of the directory on; scan holds _rules and the log
_discover_dir(files, k, scan) ==
    IF k > Len(files) THEN scan
    ELSE _discover_dir(files, k + 1,
                       [rules |-> LoadFile(scan.rules, files[k]),
                        by_code |-> IndexFile(scan.by_code, files[k]),
                        log |-> LogFile(scan.log, files[k])])

RECURSIVE DiscoverFrom(_, _, _)
\* discover from location l on: the built-in directory, then the user and the
\* project directory if they exist
DiscoverFrom(locations, l, scan) ==
    IF l > Len(locations) THEN scan
    ELSE DiscoverFrom(locations, l + 1,
                      IF locations[l].exists
                      THEN _discover_dir(locations[l].files, 1, scan)
                      ELSE scan)

\* No discover call in this behaviour
DiscIdle ==
    /\ rule_locations = <<>>
    /\ arg_force = FALSE
    /\ discover_log = <<>>
    /\ discover_pc = "idle"
    /\ _rules_by_code = <<>>

\* The rule directories: the built-in one exists; at most MaxRuleFiles
\* entries in all, none in a directory that does not exist
DiscInit ==
    /\ \E files \in SeqsUpTo(FileEntries, MaxRuleFiles), a, b \in 0..MaxRuleFiles,
          user_exists, project_exists \in BOOLEAN :
        /\ a <= b
        /\ b <= Len(files)
        /\ user_exists \/ a = b
        /\ project_exists \/ b = Len(files)
        /\ rule_locations = <<[exists |-> TRUE, files |-> SubSeq(files, 1, a)],
                              [exists |-> user_exists, files |-> SubSeq(files, a + 1, b)],
                              [exists |-> project_exists,
                               files |-> SubSeq(files, b + 1, Len(files))]>>
    /\ arg_force = FALSE
    /\ discover_log = <<>>
    /\ discover_pc = "ready"
    /\ _rules_by_code = <<>>
    /\ rules_disk = <<>>
    /\ _rules = <<>>
    /\ _discovered = FALSE
    /\ rules_pc = "idle"
    /\ arg_select = None
    /\ arg_ignore = None
    /\ arg_target = None
    /\ rules_local = <<>>
    /\ rules_i = 0
    /\ detections = <<>>
    /\ check_calls = <<>>
    /\ error_log = <<>>

\* discover(force): if cls._discovered and not force: return
DiscoverCached ==
    /\ discover_pc \in {"ready", "done"}
    /\ _discovered
    /\ arg_force' = FALSE
    /\ discover_pc' = "done"
    /\ UNCHANGED <<rule_locations, discover_log, _rules_by_code, rules_disk, _rules, _discovered, rules_pc,
                   arg_select, arg_ignore, arg_target, rules_local, rules_i, detections,
                   check_calls, error_log>>

\* discover(force), scanning
DiscoverScan ==
    /\ discover_pc \in {"ready", "done"}
    /\ \E force \in BOOLEAN :
        /\ IF _discovered THEN force ELSE TRUE
        /\ arg_force' = force
    /\ LET scan == DiscoverFrom(rule_locations, 1,
                             [rules |-> <<>>, by_code |-> <<>>, log |-> <<>>])
       IN  /\ _rules' = scan.rules
           /\ _rules_by_code' = scan.by_code
           /\ discover_log' = scan.log
    /\ _discovered' = TRUE
    /\ discover_pc' = "done"
    /\ UNCHANGED <<rule_locations, rules_disk, rules_pc, arg_select, arg_ignore, arg_target,
                   rules_local, rules_i, detections, check_calls, error_log>>

DiscoverNext ==
    \/ DiscoverCached /\ UNCHANGED <<sliceVars, hierVars, relVars, typesVars, extractVars, validVars, jsonlVars, updVars, queryVars, stdinVars>>
    \/ DiscoverScan /\ UNCHANGED <<sliceVars, hierVars, relVars, typesVars, extractVars, validVars, jsonlVars, updVars, queryVars, stdinVars>>

(***************************************************************************)
(* Relationship registry: RelationshipRegistry                             *)
(***************************************************************************)
MaxEdges == 3        \* longest edge list traversed

\* Entity references: dicts with 'type' and 'name'
Entities == {
    [type |-> "class", name |-> "A"],
    [type |-> "class", name |-> "B"],
    [type |-> "function", name |-> "A"] }

\* The relationship definitions given to register_relationships
Schemas == {
    [r \in {"calls", "imports", "inherits_from"} |->
        CASE r = "calls" -> [bidirectional |-> TRUE, reverse_name |-> Some("called_by"), transitive |-> FALSE]
          [] r = "imports" -> [bidirectional |-> TRUE, reverse_name |-> None, transitive |-> FALSE]
          [] r = "inherits_from" -> [bidirectional |-> FALSE, reverse_name |-> None, transitive |-> TRUE]],
    [r \in {"calls", "called_by"} |->
        CASE r = "calls" -> [bidirectional |-> TRUE, reverse_name |-> Some("called_by"), transitive |-> TRUE]
          [] r = "called_by" -> [bidirectional |-> TRUE, reverse_name |-> Some("calls"), transitive |-> TRUE]] }

\* The empty dict
EmptyDict == [k \in {} |-> None]

\* dict.get(key, default)
DictGet(dict, key, default) == IF key \in DOMAIN dict THEN dict[key] ELSE default

\* entity1 and entity2 compared by name alone
EntitiesMatchByName(entity1, entity2) == entity1.name = entity2.name

\* RelationshipRegistry._entities_match
_entities_match(entity1, entity2) ==
    entity1.type = entity2.type /\ entity1.name = entity2.name

\* traverse: entity_id = (entity.get('type'), entity.get('name'))
EntityId(entity) == <<entity.type, entity.name>>

\* A visited test that never finds the entity
NeverVisited(entity, seen) == FALSE

\* traverse: if entity_id in visited: return
AlreadyVisited(entity, seen) == EntityId(entity) \in seen

\* register_relationships: the definition stored under name
Registered(name, rel_def) ==
    IF rel_def.bidirectional /\ (rel_def.reverse_name = None \/ rel_def.reverse_name = Some(""))
    THEN [rel_def EXCEPT !.reverse_name = Some(name \o "_by")]
    ELSE rel_def

TravIdle ==
    /\ rel_name = ""
    /\ start_entity = None
    /\ edges = <<>>
    /\ visited = {}
    /\ reachable = <<>>
    /\ stack = <<>>
    /\ expansions = <<>>

\* build_index not called
IndexIdle ==
    /\ data_keys = <<>>
    /\ relationship_data = EmptyDict
    /\ data_given = EmptyDict
    /\ enhanced_own = EmptyDict
    /\ index_i = 0
    /\ index_result = None

\* No RelationshipRegistry in this behaviour
RelIdle == relationships = EmptyDict /\ rel_pc = "idle" /\ TravIdle /\ IndexIdle

\* RelationshipRegistry.__init__
RelInit == relationships = EmptyDict /\ rel_pc = "new" /\ TravIdle /\ IndexIdle

\* RelationshipRegistry.register_relationships
RegisterRelationships ==
    /\ rel_pc = "new"
    /\ \E schema \in Schemas :
        relationships' = [name \in DOMAIN schema |-> Registered(name, schema[name])]
    /\ rel_pc' = "registered"
    /\ UNCHANGED <<travVars, indexVars>>

\* traverse_transitive up to the first call of traverse: an unknown or
\* non-transitive relationship returns [] at once
TraverseCall ==
    /\ rel_pc = "registered"
    /\ \E name \in {"calls", "inherits_from", "uses"}, start \in Entities :
       \E data \in {EmptyDict} \cup {[k \in {name} |-> es] :
                        es \in SeqsUpTo([from : Entities, to : Entities], MaxEdges)} :
        /\ rel_name' = name
        /\ start_entity' = Some(start)
        /\ IF name \notin DOMAIN relationships \/ ~relationships[name].transitive
           THEN /\ rel_pc' = "done"
                /\ UNCHANGED <<edges, visited, stack, expansions>>
           ELSE /\ rel_pc' = "traverse"
                /\ edges' = DictGet(data, name, <<>>)
                /\ visited' = {EntityId(start)}
                /\ expansions' = <<EntityId(start)>>
                /\ stack' = <<[entity |-> start, k |-> 1]>>
    /\ UNCHANGED <<relationships, reachable>>

\* The frame on top of the stack: the innermost active call of traverse
Top == stack[Len(stack)]

\* The stack with the loop of its top frame moved on to the next edge
Advanced == [stack EXCEPT ![Len(stack)].k = @ + 1]

\* traverse's loop: an edge that does not start at the entity
TraverseSkipEdge ==
    /\ rel_pc = "traverse"
    /\ stack # <<>>
    /\ Top.k <= Len(edges)
    /\ ~_entities_match(edges[Top.k].from, Top.entity)
    /\ stack' = Advanced
    /\ UNCHANGED <<relationships, rel_pc, rel_name, start_entity, edges, visited, reachable, expansions>>

\* traverse's loop: an edge from the entity; its target is appended and
\* traverse(to_entity) returns at once, the target being visited already
TraverseSeenEdge ==
    /\ rel_pc = "traverse"
    /\ stack # <<>>
    /\ Top.k <= Len(edges)
    /\ _entities_match(edges[Top.k].from, Top.entity)
    /\ AlreadyVisited(edges[Top.k].to, visited)
    /\ reachable' = Append(reachable, edges[Top.k].to)
    /\ stack' = Advanced
    /\ UNCHANGED <<relationships, rel_pc, rel_name, start_entity, edges, visited, expansions>>

\* traverse's loop: an edge from the entity; its target is appended and
\* traverse(to_entity) marks it visited and starts its own loop
TraverseDescend ==
    /\ rel_pc = "traverse"
    /\ stack # <<>>
    /\ Top.k <= Len(edges)
    /\ _entities_match(edges[Top.k].from, Top.entity)
    /\ ~AlreadyVisited(edges[Top.k].to, visited)
    /\ reachable' = Append(reachable, edges[Top.k].to)
    /\ visited' = visited \cup {EntityId(edges[Top.k].to)}
    /\ expansions' = Append(expansions, EntityId(edges[Top.k].to))
    /\ stack' = Append(Advanced, [entity |-> edges[Top.k].to, k |-> 1])
    /\ UNCHANGED <<relationships, rel_pc, rel_name, start_entity, edges>>

\* traverse's loop is over: the call returns to its caller
TraverseReturn ==
    /\ rel_pc = "traverse"
    /\ stack # <<>>
    /\ Top.k > Len(edges)
    /\ stack' = SubSeq(stack, 1, Len(stack) - 1)
    /\ UNCHANGED <<relationships, rel_pc, rel_name, start_entity, edges, visited, reachable, expansions>>

\* traverse_transitive: return reachable
TraverseDone ==
    /\ rel_pc = "traverse"
    /\ stack = <<>>
    /\ rel_pc' = "done"
    /\ UNCHANGED <<relationships, travVars>>

TraverseNext ==
    \/ RegisterRelationships /\ UNCHANGED <<sliceVars, hierVars, rulesVars, indexVars, typesVars, extractVars, validVars, discVars, jsonlVars, updVars, queryVars, stdinVars>>
    \/ TraverseCall /\ UNCHANGED <<sliceVars, hierVars, rulesVars, indexVars, typesVars, extractVars, validVars, discVars, jsonlVars, updVars, queryVars, stdinVars>>
    \/ TraverseSkipEdge /\ UNCHANGED <<sliceVars, hierVars, rulesVars, indexVars, typesVars, extractVars, validVars, discVars, jsonlVars, updVars, queryVars, stdinVars>>
    \/ TraverseSeenEdge /\ UNCHANGED <<sliceVars, hierVars, rulesVars, indexVars, typesVars, extractVars, validVars, discVars, jsonlVars, updVars, queryVars, stdinVars>>
    \/ TraverseDescend /\ UNCHANGED <<sliceVars, hierVars, rulesVars, indexVars, typesVars, extractVars, validVars, discVars, jsonlVars, updVars, queryVars, stdinVars>>
    \/ TraverseReturn /\ UNCHANGED <<sliceVars, hierVars, rulesVars, indexVars, typesVars, extractVars, validVars, discVars, jsonlVars, updVars, queryVars, stdinVars>>
    \/ TraverseDone /\ UNCHANGED <<sliceVars, hierVars, rulesVars, indexVars, typesVars, extractVars, validVars, discVars, jsonlVars, updVars, queryVars, stdinVars>>

(***************************************************************************)
(* Relationship registry: RelationshipRegistry.build_index                 *)
(*                                                                         *)
(* enhanced = dict(relationship_data) is a shallow copy: under every key   *)
(* of the argument, enhanced holds the caller's own list object, so the    *)
(* model keeps one list per such key (relationship_data) and separate      *)
(* lists only for the keys build_index adds (enhanced_own).                *)
(***************************************************************************)
MaxIndexEdges == 2   \* most edges in the data given to build_index, all lists together

IndexEntities == {[type |-> "class", name |-> "A"], [type |-> "class", name |-> "B"]}

\* Edge dicts: 'from', 'to', and for some an additional property 'line'
IndexEdges ==
    {e \in [from : IndexEntities, to : IndexEntities] : e.from # e.to}
    \cup {e \in [from : IndexEntities, to : IndexEntities, line : {7}] : e.from # e.to}

\* The relationship names the data may hold
IndexNames == {"calls", "called_by", "imports", "inherits_from"}

\* The orders of distinct names: the key orders a dict over some of them can have
KeyOrders(names) ==
    {ks \in SeqsUpTo(names, Cardinality(names)) : \A i, j \in 1..Len(ks) : ks[i] = ks[j] => i = j}

\* The dict with one more key
WithKey(dict, key, value) ==
    [k \in DOMAIN dict \cup {key} |-> IF k = key THEN value ELSE dict[k]]

RECURSIVE EdgeLists(_, _)
\* The dicts from the names to edge lists that hold at most n edges together
EdgeLists(names, n) ==
    IF names = {} THEN {EmptyDict}
    ELSE LET name == CHOOSE x \in names : TRUE
         IN  UNION {{WithKey(rest, name, es) : rest \in EdgeLists(names \ {name}, n - Len(es))} :
                        es \in SeqsUpTo(IndexEdges, n)}

\* A reverse edge that drops the additional properties
ReverseEdgeEndpointsOnly(edge) == [from |-> edge.to, to |-> edge.from]

\* build_index: reverse_edge, 'from' and 'to' swapped, every other key copied
ReverseEdge(edge) ==
    [key \in DOMAIN edge |->
        IF key = "from" THEN edge.to
        ELSE IF key = "to" THEN edge.from
        ELSE edge[key]]

\* build_index: reverse_edges, one reverse edge per edge of the list, in order
ReverseEdges(es) == [k \in 1..Len(es) |-> ReverseEdge(es[k])]

\* build_index: the dict `enhanced` as it is now
enhanced ==
    [name \in DOMAIN relationship_data \cup DOMAIN enhanced_own |->
        IF name \in DOMAIN relationship_data THEN relationship_data[name]
        ELSE enhanced_own[name]]

\* build_index: rel_name of the loop's current iteration
IndexRelName == data_keys[index_i]

\* build_index: if not rel_def or not rel_def.bidirectional
IndexSkips(name) ==
    IF name \notin DOMAIN relationships THEN TRUE ELSE ~relationships[name].bidirectional

\* build_index up to the loop
BuildIndexCall ==
    /\ rel_pc = "registered"
    /\ \E ks \in KeyOrders(IndexNames) :
       \E lists \in EdgeLists({ks[i] : i \in 1..Len(ks)}, MaxIndexEdges) :
        /\ data_keys' = ks
        /\ relationship_data' = lists
        /\ data_given' = lists
    /\ enhanced_own' = EmptyDict
    /\ index_i' = 1
    /\ rel_pc' = "index"
    /\ UNCHANGED <<relationships, travVars, index_result>>

\* build_index's loop: a name that is not registered or not bidirectional
BuildIndexContinue ==
    /\ rel_pc = "index"
    /\ index_i <= Len(data_keys)
    /\ IndexSkips(IndexRelName)
    /\ index_i' = index_i + 1
    /\ UNCHANGED <<relationships, rel_pc, travVars, data_keys, relationship_data,
                   data_given, enhanced_own, index_result>>

\* build_index's loop: the reverse name is in enhanced, its list is extended
\* in place (the caller's list, when the key came with the argument)
BuildIndexExtend ==
    /\ rel_pc = "index"
    /\ index_i <= Len(data_keys)
    /\ ~IndexSkips(IndexRelName)
    /\ LET reverse_name == Val(relationships[IndexRelName].reverse_name)
           reverse_edges == ReverseEdges(relationship_data[IndexRelName])
       IN  /\ reverse_name \in DOMAIN enhanced
           /\ IF reverse_name \in DOMAIN relationship_data
              THEN /\ relationship_data' =
                        [relationship_data EXCEPT ![reverse_name] = @ \o reverse_edges]
                   /\ UNCHANGED enhanced_own
              ELSE /\ enhanced_own' = [enhanced_own EXCEPT ![reverse_name] = @ \o reverse_edges]
                   /\ UNCHANGED relationship_data
    /\ index_i' = index_i + 1
    /\ UNCHANGED <<relationships, rel_pc, travVars, data_keys, data_given, index_result>>

\* build_index's loop: the reverse name is not in enhanced, its list is created
BuildIndexCreate ==
    /\ rel_pc = "index"
    /\ index_i <= Len(data_keys)
    /\ ~IndexSkips(IndexRelName)
    /\ LET reverse_name == Val(relationships[IndexRelName].reverse_name)
           reverse_edges == ReverseEdges(relationship_data[IndexRelName])
       IN  /\ reverse_name \notin DOMAIN enhanced
           /\ enhanced_own' = WithKey(enhanced_own, reverse_name, reverse_edges)
    /\ index_i' = index_i + 1
    /\ UNCHANGED <<relationships, rel_pc, travVars, data_keys, relationship_data,
                   data_given, index_result>>

\* build_index: return enhanced
BuildIndexReturn ==
    /\ rel_pc = "index"
    /\ index_i > Len(data_keys)
    /\ index_result' = Some(enhanced)
    /\ rel_pc' = "indexed"
    /\ UNCHANGED <<relationships, travVars, data_keys, relationship_data, data_given,
                   enhanced_own, index_i>>

IndexNext ==
    \/ RegisterRelationships /\ UNCHANGED <<sliceVars, hierVars, rulesVars, typesVars, extractVars, validVars, discVars, jsonlVars, updVars, queryVars, stdinVars>>
    \/ BuildIndexCall /\ UNCHANGED <<sliceVars, hierVars, rulesVars, typesVars, extractVars, validVars, discVars, jsonlVars, updVars, queryVars, stdinVars>>
    \/ BuildIndexContinue /\ UNCHANGED <<sliceVars, hierVars, rulesVars, typesVars, extractVars, validVars, discVars, jsonlVars, updVars, queryVars, stdinVars>>
    \/ BuildIndexExtend /\ UNCHANGED <<sliceVars, hierVars, rulesVars, typesVars, extractVars, validVars, discVars, jsonlVars, updVars, queryVars, stdinVars>>
    \/ BuildIndexCreate /\ UNCHANGED <<sliceVars, hierVars, rulesVars, typesVars, extractVars, validVars, discVars, jsonlVars, updVars, queryVars, stdinVars>>
    \/ BuildIndexReturn /\ UNCHANGED <<sliceVars, hierVars, rulesVars, typesVars, extractVars, validVars, discVars, jsonlVars, updVars, queryVars, stdinVars>>

(***************************************************************************)
(* Type registry: Entity, TypeRegistry                                     *)
(*                                                                         *)
(* A dict whose key order matters is a sequence of [key, value] items with *)
(* distinct keys, in insertion order.                                      *)
(***************************************************************************)
MaxTypes == 3        \* the number of entity types registered

\* The mapping a dict stands for, its key order forgotten
AsMap(dict) == [key \in {dict[i].key : i \in 1..Len(dict)} |-> Lookup(dict, key)]

\* x in list
InSeq(x, list) == \E i \in 1..Len(list) : list[i] = x

\* A merge in which the parent's value wins
MergeParentWins(parent, child) ==
    LET New(item) == ~HasKey(parent, item.key)
    IN  parent \o SelectSeq(child, New)

\* {**parent, **child}: the parent's keys in their order, the child's value
\* wherever the child has the key, then the child's other keys
MergeDicts(parent, child) ==
    LET New(item) == ~HasKey(parent, item.key)
    IN  [i \in 1..Len(parent) |->
            IF HasKey(child, parent[i].key)
            THEN [key |-> parent[i].key, value |-> Lookup(child, parent[i].key)]
            ELSE parent[i]]
        \o SelectSeq(child, New)

\* A merge that appends the child's list as it is
MergeListsAppend(parent, child) == parent \o child

\* list(parent) + [c for c in child if c not in parent]
MergeLists(parent, child) ==
    LET New(c) == ~InSeq(c, parent)
    IN  parent \o SelectSeq(child, New)

\* Entity(properties, inherits, contains, searchable) after __post_init__:
\* an empty searchable defaults to the property names
Entity(properties, inherits, contains, searchable) ==
    [properties |-> properties,
     inherits |-> inherits,
     contains |-> contains,
     searchable |-> IF searchable = <<>> THEN Keys(properties) ELSE searchable]

\* The type names of the schema, in the order of the types dict
TypeNames == SubSeq(<<"A", "B", "C", "D">>, 1, MaxTypes)

\* The names a type may give as its parent: a registered name or an unknown one
ParentNames == {TypeNames[i] : i \in 1..Len(TypeNames)} \cup {"Unknown"}

\* What a type declares besides its parent
EntityBodies == <<
    [properties |-> <<[key |-> "x", value |-> "int"]>>, contains |-> <<>>, searchable |-> <<>>],
    [properties |-> <<[key |-> "y", value |-> "str"]>>, contains |-> <<"m">>, searchable |-> <<"y">>],
    [properties |-> <<[key |-> "x", value |-> "str"]>>, contains |-> <<"n", "m">>, searchable |-> <<"x">> ] >>

\* The ways to hand the bodies out: the first three types take them in any
\* order, a further type takes the body of the type three places before it
BodyOrders ==
    {order \in [1..Len(EntityBodies) -> 1..Len(EntityBodies)] :
        \A i, j \in 1..Len(EntityBodies) : order[i] = order[j] => i = j}

\* The schemas: every type with any body and any parent, cycles included.
\* The dict order is fixed and the parents are free, so a child is registered
\* before its parent in some schemas and after it in others.
TypeSchemas ==
    {[i \in 1..Len(TypeNames) |->
        LET body == EntityBodies[order[((i - 1) % Len(EntityBodies)) + 1]]
        IN  [key |-> TypeNames[i],
             value |-> Entity(body.properties, inherits[i], body.contains, body.searchable)]] :
        order \in BodyOrders,
        inherits \in [1..Len(TypeNames) -> {None} \cup {Some(n) : n \in ParentNames}]}

\* dict[key] = value for a key the dict has
DictSet(dict, key, value) ==
    [i \in 1..Len(dict) |-> IF dict[i].key = key THEN [key |-> key, value |-> value] ELSE dict[i]]

ResolveIdle ==
    /\ resolved = {}
    /\ in_progress = {}
    /\ resolve_i = 0
    /\ resolve_stack = <<>>

\* No TypeRegistry in this behaviour
TypesIdle ==
    /\ types_given = <<>>
    /\ type_keys = <<>>
    /\ types = <<>>
    /\ _inheritance_resolved = FALSE
    /\ types_pc = "idle"
    /\ ResolveIdle
    /\ types_first = None
    /\ registered_from = ""
    /\ resolutions = 0
    /\ raises = 0

\* TypeRegistry.__init__, and the type definitions of the analyzer
TypesInit ==
    /\ types_given \in TypeSchemas
    /\ type_keys = <<>>
    /\ types = <<>>
    /\ _inheritance_resolved = FALSE
    /\ types_pc = "new"
    /\ ResolveIdle
    /\ types_first = None
    /\ registered_from = ""
    /\ resolutions = 0
    /\ raises = 0

\* TypeRegistry.register_types: with the definitions as declared, or (again)
\* with the same Entity objects the registry holds and has resolved
RegisterTypes ==
    /\ types_pc \in {"new", "registered", "returned", "cached", "raised"}
    /\ \E from \in {"declared"} \cup (IF types_pc = "new" THEN {} ELSE {"held"}) :
          /\ types' = DictUpdate(types, IF from = "declared" THEN types_given ELSE types)
          /\ registered_from' = from
    /\ type_keys' = Keys(types')
    /\ _inheritance_resolved' = FALSE
    /\ types_pc' = "registered"
    /\ UNCHANGED <<types_given, resolved, in_progress, resolve_i, resolve_stack, types_first,
                   resolutions, raises>>

\* resolve_inheritance: if self._inheritance_resolved: return
ResolveCached ==
    /\ types_pc \in {"registered", "returned"}
    /\ _inheritance_resolved
    /\ types_pc' = "cached"
    /\ UNCHANGED <<types_given, type_keys, types, _inheritance_resolved, resolved, in_progress,
                   resolve_i, resolve_stack, types_first, registered_from, resolutions, raises>>

\* resolve_inheritance up to its loop
ResolveCall ==
    /\ types_pc \in {"registered", "returned", "cached", "raised"}
    /\ ~_inheritance_resolved
    /\ resolved' = {}
    /\ in_progress' = {}
    /\ resolve_i' = 1
    /\ resolve_stack' = <<>>
    /\ types_pc' = "resolving"
    /\ UNCHANGED <<types_given, type_keys, types, _inheritance_resolved, types_first,
                   registered_from, resolutions, raises>>

\* The innermost active call of resolve_type
ResolveTop == resolve_stack[Len(resolve_stack)]

\* The stack without its innermost call
ResolvePopped == SubSeq(resolve_stack, 1, Len(resolve_stack) - 1)

\* resolve_type is at its start
Entering == types_pc = "resolving" /\ resolve_stack # <<>> /\ ResolveTop.pc = "enter"

\* An in_progress test that never finds the type
NeverInProgress(type_name, set) == FALSE

\* resolve_type: if type_name in in_progress
InProgress(type_name, set) == type_name \in set

\* resolve_inheritance's loop: resolve_type(type_name) for the next key
ResolveLoop ==
    /\ types_pc = "resolving"
    /\ resolve_stack = <<>>
    /\ resolve_i <= Len(type_keys)
    /\ resolve_stack' = <<[type_name |-> type_keys[resolve_i], pc |-> "enter"]>>
    /\ resolve_i' = resolve_i + 1
    /\ UNCHANGED <<types_given, type_keys, types, _inheritance_resolved, types_pc, resolved,
                   in_progress, types_first,
                   registered_from, resolutions, raises>>

\* resolve_type: if type_name in resolved: return
ResolveTypeResolved ==
    /\ Entering
    /\ ResolveTop.type_name \in resolved
    /\ resolve_stack' = ResolvePopped
    /\ UNCHANGED <<types_given, type_keys, types, _inheritance_resolved, types_pc, resolved,
                   in_progress, resolve_i, types_first,
                   registered_from, resolutions, raises>>

\* A raise after which the registry counts as resolved
ResolveTypeCircularMarksResolved ==
    /\ Entering
    /\ ResolveTop.type_name \notin resolved
    /\ InProgress(ResolveTop.type_name, in_progress)
    /\ resolve_stack' = <<>>
    /\ types_pc' = "raised"
    /\ raises' = Min(raises + 1, 2)
    /\ _inheritance_resolved' = TRUE
    /\ UNCHANGED <<types_given, type_keys, types, resolved, in_progress,
                   resolve_i, types_first,
                   registered_from, resolutions>>

\* resolve_type: raise ValueError("Circular inheritance detected"); the error
\* leaves every active call and resolve_inheritance itself
ResolveTypeCircular ==
    /\ Entering
    /\ ResolveTop.type_name \notin resolved
    /\ InProgress(ResolveTop.type_name, in_progress)
    /\ resolve_stack' = <<>>
    /\ types_pc' = "raised"
    /\ raises' = Min(raises + 1, 2)
    /\ UNCHANGED <<types_given, type_keys, types, _inheritance_resolved, resolved, in_progress,
                   resolve_i, types_first,
                   registered_from, resolutions>>

\* resolve_type: a type without a parent
ResolveTypeRoot ==
    /\ Entering
    /\ ResolveTop.type_name \notin resolved
    /\ ~InProgress(ResolveTop.type_name, in_progress)
    /\ Lookup(types, ResolveTop.type_name).inherits = None
    /\ resolved' = resolved \cup {ResolveTop.type_name}
    /\ resolve_stack' = ResolvePopped
    /\ UNCHANGED <<types_given, type_keys, types, _inheritance_resolved, types_pc, in_progress,
                   resolve_i, types_first,
                   registered_from, resolutions, raises>>

\* resolve_type: a type whose parent is not registered (logged as a warning)
ResolveTypeUnknownParent ==
    /\ Entering
    /\ ResolveTop.type_name \notin resolved
    /\ ~InProgress(ResolveTop.type_name, in_progress)
    /\ Lookup(types, ResolveTop.type_name).inherits # None
    /\ ~HasKey(types, Val(Lookup(types, ResolveTop.type_name).inherits))
    /\ resolved' = resolved \cup {ResolveTop.type_name}
    /\ resolve_stack' = ResolvePopped
    /\ UNCHANGED <<types_given, type_keys, types, _inheritance_resolved, types_pc, in_progress,
                   resolve_i, types_first,
                   registered_from, resolutions, raises>>

\* resolve_type: in_progress.add(type_name); resolve_type(parent_name)
ResolveTypeParent ==
    /\ Entering
    /\ ResolveTop.type_name \notin resolved
    /\ ~InProgress(ResolveTop.type_name, in_progress)
    /\ Lookup(types, ResolveTop.type_name).inherits # None
    /\ HasKey(types, Val(Lookup(types, ResolveTop.type_name).inherits))
    /\ in_progress' = in_progress \cup {ResolveTop.type_name}
    /\ resolve_stack' =
          Append([resolve_stack EXCEPT ![Len(resolve_stack)].pc = "merge"],
                 [type_name |-> Val(Lookup(types, ResolveTop.type_name).inherits), pc |-> "enter"])
    /\ UNCHANGED <<types_given, type_keys, types, _inheritance_resolved, types_pc, resolved,
                   resolve_i, types_first,
                   registered_from, resolutions, raises>>

\* resolve_type after resolve_type(parent_name) returned: the entity takes
\* the merged properties, contains and searchable
ResolveTypeMerge ==
    /\ types_pc = "resolving"
    /\ resolve_stack # <<>>
    /\ ResolveTop.pc = "merge"
    /\ LET type_name == ResolveTop.type_name
           entity == Lookup(types, type_name)
           parent == Lookup(types, Val(entity.inherits))
       IN  types' = DictSet(types, type_name,
                [entity EXCEPT
                    !.properties = MergeDicts(parent.properties, entity.properties),
                    !.contains = MergeLists(parent.contains, entity.contains),
                    !.searchable = MergeLists(parent.searchable, entity.searchable)])
    /\ resolved' = resolved \cup {ResolveTop.type_name}
    /\ in_progress' = in_progress \ {ResolveTop.type_name}
    /\ resolve_stack' = ResolvePopped
    /\ UNCHANGED <<types_given, type_keys, _inheritance_resolved, types_pc, resolve_i, types_first,
                   registered_from, resolutions, raises>>

\* resolve_inheritance: self._inheritance_resolved = True
ResolveDone ==
    /\ types_pc = "resolving"
    /\ resolve_stack = <<>>
    /\ resolve_i > Len(type_keys)
    /\ _inheritance_resolved' = TRUE
    /\ types_pc' = "returned"
    /\ types_first' = IF types_first = None THEN Some(types) ELSE types_first
    /\ resolutions' = Min(resolutions + 1, 2)
    /\ UNCHANGED <<types_given, type_keys, types, resolved, in_progress, resolve_i, resolve_stack,
                   registered_from, raises>>

TypesNext ==
    \/ RegisterTypes /\ UNCHANGED <<sliceVars, hierVars, rulesVars, relVars, extractVars, validVars, discVars, jsonlVars, updVars, queryVars, stdinVars>>
    \/ ResolveCached /\ UNCHANGED <<sliceVars, hierVars, rulesVars, relVars, extractVars, validVars, discVars, jsonlVars, updVars, queryVars, stdinVars>>
    \/ ResolveCall /\ UNCHANGED <<sliceVars, hierVars, rulesVars, relVars, extractVars, validVars, discVars, jsonlVars, updVars, queryVars, stdinVars>>
    \/ ResolveLoop /\ UNCHANGED <<sliceVars, hierVars, rulesVars, relVars, extractVars, validVars, discVars, jsonlVars, updVars, queryVars, stdinVars>>
    \/ ResolveTypeResolved /\ UNCHANGED <<sliceVars, hierVars, rulesVars, relVars, extractVars, validVars, discVars, jsonlVars, updVars, queryVars, stdinVars>>
    \/ ResolveTypeCircular /\ UNCHANGED <<sliceVars, hierVars, rulesVars, relVars, extractVars, validVars, discVars, jsonlVars, updVars, queryVars, stdinVars>>
    \/ ResolveTypeRoot /\ UNCHANGED <<sliceVars, hierVars, rulesVars, relVars, extractVars, validVars, discVars, jsonlVars, updVars, queryVars, stdinVars>>
    \/ ResolveTypeUnknownParent /\ UNCHANGED <<sliceVars, hierVars, rulesVars, relVars, extractVars, validVars, discVars, jsonlVars, updVars, queryVars, stdinVars>>
    \/ ResolveTypeParent /\ UNCHANGED <<sliceVars, hierVars, rulesVars, relVars, extractVars, validVars, discVars, jsonlVars, updVars, queryVars, stdinVars>>
    \/ ResolveTypeMerge /\ UNCHANGED <<sliceVars, hierVars, rulesVars, relVars, extractVars, validVars, discVars, jsonlVars, updVars, queryVars, stdinVars>>
    \/ ResolveDone /\ UNCHANGED <<sliceVars, hierVars, rulesVars, relVars, extractVars, validVars, discVars, jsonlVars, updVars, queryVars, stdinVars>>

(***************************************************************************)
(* Type hierarchy queries: is_subtype_of, get_subtypes                     *)
(*                                                                         *)
(* A query returns Some(value), or None when the calls nest deeper than    *)
(* the interpreter allows and RecursionError leaves the query.             *)
(***************************************************************************)
RecursionLimit == 8  \* the depth of calls at which RecursionError is raised

RECURSIVE is_subtype_of(_, _, _, _)
\* TypeRegistry.is_subtype_of(child, parent), depth calls deep
is_subtype_of(registered, child, parent, depth) ==
    IF depth > RecursionLimit THEN None
    ELSE IF child = parent THEN Some(TRUE)
    ELSE IF ~HasKey(registered, child) THEN Some(FALSE)
    ELSE LET entity == Lookup(registered, child)
         IN  IF entity.inherits = None THEN Some(FALSE)
             ELSE IF Val(entity.inherits) = parent THEN Some(TRUE)
             ELSE is_subtype_of(registered, Val(entity.inherits), parent, depth + 1)

RECURSIVE SubtypesFrom(_, _, _, _)
\* TypeRegistry.get_subtypes(type_name), depth calls deep, from the i-th item
\* of self.types.items() on
SubtypesFrom(registered, type_name, i, depth) ==
    IF depth > RecursionLimit THEN None
    ELSE IF i > Len(registered) THEN Some(<<>>)
    ELSE IF registered[i].value.inherits = Some(type_name)
    THEN LET below == SubtypesFrom(registered, registered[i].key, 1, depth + 1)
         IN  IF below = None THEN None
             ELSE LET rest == SubtypesFrom(registered, type_name, i + 1, depth)
                  IN  IF rest = None THEN None
                      ELSE Some(<<registered[i].key>> \o Val(below) \o Val(rest))
    ELSE SubtypesFrom(registered, type_name, i + 1, depth)

\* TypeRegistry.get_subtypes(type_name)
get_subtypes(registered, type_name) == SubtypesFrom(registered, type_name, 1, 1)

\* No query in this behaviour
QueryIdle ==
    /\ query_types = <<>>
    /\ query_call = <<>>
    /\ query_pc = "idle"
    /\ query_result = None

\* A registry after register_types
QueryInit ==
    /\ query_types \in TypeSchemas
    /\ query_call = <<>>
    /\ query_pc = "ready"
    /\ query_result = None

\* registry.is_subtype_of(child, parent)
IsSubtypeOf ==
    /\ query_pc # "idle"
    /\ \E child \in ParentNames, parent \in ParentNames :
        /\ query_call' = <<"is_subtype_of", child, parent>>
        /\ query_result' = is_subtype_of(query_types, child, parent, 1)
    /\ query_pc' = IF query_result' = None THEN "raised" ELSE "answered"
    /\ UNCHANGED query_types

\* registry.get_subtypes(type_name)
GetSubtypes ==
    /\ query_pc # "idle"
    /\ \E type_name \in ParentNames :
        /\ query_call' = <<"get_subtypes", type_name>>
        /\ query_result' = get_subtypes(query_types, type_name)
    /\ query_pc' = IF query_result' = None THEN "raised" ELSE "answered"
    /\ UNCHANGED query_types

QueryNext ==
    \/ IsSubtypeOf /\ UNCHANGED <<sliceVars, hierVars, rulesVars, relVars, typesVars, extractVars, validVars, discVars, jsonlVars, updVars, stdinVars>>
    \/ GetSubtypes /\ UNCHANGED <<sliceVars, hierVars, rulesVars, relVars, typesVars, extractVars, validVars, discVars, jsonlVars, updVars, stdinVars>>

(***************************************************************************)
(* Entity validation: TypeRegistry.validate_entity                         *)
(*                                                                         *)
(* A declared property type is written as Python shows it; a value is      *)
(* known by its class.                                                     *)
(***************************************************************************)
MaxProps == 2      \* most properties of the validated type

\* The classes of the values of an instance; None is the NoneType value
ValueClasses == {"NoneType", "int", "str", "list"}

\* The type annotations Entity._is_valid_type accepts: classes, typing.Union
\* and Optional, the X | Y unions, generic aliases, typing.Any
PropertyTypes ==
    {"int", "str", "list", "Optional[int]", "Union[int, str]", "int | None", "List[str]", "Any"}

\* typing.get_origin
get_origin(tp) ==
    CASE tp \in {"Optional[int]", "Union[int, str]"} -> Some("Union")
      [] tp = "int | None" -> Some("UnionType")
      [] tp = "List[str]" -> Some("list")
      [] OTHER -> None

\* typing.get_args
get_args(tp) ==
    CASE tp \in {"Optional[int]", "int | None"} -> <<"int", "NoneType">>
      [] tp = "Union[int, str]" -> <<"int", "str">>
      [] tp = "List[str]" -> <<"str">>
      [] OTHER -> <<>>

\* _check_type: "True", "False", or "TypeError" when isinstance is given
\* typing.Any
_check_type(value, expected_type) ==
    LET origin == get_origin(expected_type)
    IN  IF origin # None
        THEN IF Val(origin) = "list" THEN (IF value = "list" THEN "True" ELSE "False")
             ELSE IF Val(origin) = "dict" THEN (IF value = "dict" THEN "True" ELSE "False")
             ELSE "True"
        ELSE IF expected_type = "Any" THEN "TypeError"
             ELSE IF value = expected_type THEN "True" ELSE "False"

RECURSIVE AnyCheckType(_, _, _)
\* any(self._check_type(value, arg) for arg in args if arg is not type(None)),
\* from position k of args
AnyCheckType(value, args, k) ==
    IF k > Len(args) THEN "False"
    ELSE IF args[k] = "NoneType" THEN AnyCheckType(value, args, k + 1)
    ELSE IF _check_type(value, args[k]) = "False" THEN AnyCheckType(value, args, k + 1)
    ELSE _check_type(value, args[k])

\* The type check of one property: the error appended, none, or the exception
CheckProperty(prop_name, prop_type, data) ==
    IF ~HasKey(data, prop_name) THEN <<>>
    ELSE LET value == Lookup(data, prop_name)
             valid == IF get_origin(prop_type) = Some("Union")
                      THEN AnyCheckType(value, get_args(prop_type), 1)
                      ELSE _check_type(value, prop_type)
         IN  IF value = "NoneType" THEN <<>>
             ELSE IF valid = "TypeError" THEN <<"TypeError">>
             ELSE IF valid = "False"
                  THEN <<<<"invalid type", prop_name, prop_type, value>>>>
                  ELSE <<>>

RECURSIVE CheckProperties(_, _, _, _)
\* for prop_name, prop_type in entity_def.properties.items(), from item i on:
\* the list of errors, with "TypeError" last when the loop raised
CheckProperties(properties, data, i, found) ==
    IF i > Len(properties) THEN found
    ELSE LET checked == CheckProperty(properties[i].key, properties[i].value, data)
         IN  IF checked = <<"TypeError">> THEN Append(found, "TypeError")
             ELSE CheckProperties(properties, data, i + 1, found \o checked)

\* validate_entity
validate_entity(registered, name, data) ==
    IF ~HasKey(registered, name)
    THEN <<<<"Unknown entity type", name>>>>
    ELSE CheckProperties(Lookup(registered, name).properties, data, 1, <<>>)

\* The property names of the validated type, in the order of its dict
PropertyNames == SubSeq(<<"line", "name", "signature">>, 1, MaxProps)

\* The Entity definitions with up to MaxProps properties of any type
ValidatedEntities ==
    {Entity([i \in 1..n |-> [key |-> PropertyNames[i], value |-> tps[i]]], None, <<>>, <<>>) :
        n \in 0..MaxProps, tps \in [1..MaxProps -> PropertyTypes]}

\* The instances: each property missing, or present with a value of any class
EntityData ==
    {SelectSeq([i \in 1..MaxProps |-> [key |-> PropertyNames[i], value |-> given[i]]],
               LAMBDA item : item.value # "missing") :
        given \in [1..MaxProps -> ValueClasses \cup {"missing"}]}

\* No validate_entity call in this behaviour
ValidIdle ==
    /\ validate_pc = "idle"
    /\ validated_type = ""
    /\ entity_data = <<>>
    /\ errors = <<>>

\* A registry holding the type 'function', and the arguments of the call
ValidInit ==
    /\ types_given = <<>>
    /\ \E entity \in ValidatedEntities : types = <<[key |-> "function", value |-> entity]>>
    /\ type_keys = Keys(types)
    /\ _inheritance_resolved = FALSE
    /\ types_pc = "registered"
    /\ ResolveIdle
    /\ types_first = None
    /\ registered_from = "declared"
    /\ resolutions = 0
    /\ raises = 0
    /\ validate_pc = "ready"
    /\ validated_type \in {"function", "unknown"}
    /\ entity_data \in EntityData
    /\ errors = <<>>

\* TypeRegistry.validate_entity(type_name, entity_data)
ValidateEntity ==
    /\ validate_pc = "ready"
    /\ LET found == validate_entity(types, validated_type, entity_data)
       IN  IF found # <<>> /\ found[Len(found)] = "TypeError"
           THEN /\ validate_pc' = "raised"
                /\ errors' = <<>>
           ELSE /\ validate_pc' = "done"
                /\ errors' = found
    /\ UNCHANGED <<validated_type, entity_data>>

ValidNext ==
    \/ ValidateEntity /\ UNCHANGED <<sliceVars, hierVars, rulesVars, relVars, typesVars, extractVars, discVars, jsonlVars, updVars, queryVars, stdinVars>>

(***************************************************************************)
(* Parse trees                                                             *)
(*                                                                         *)
(* A parse tree is the sequence of its nodes in document order, each with  *)
(* its type, its depth below the root and its start row (0-indexed, as     *)
(* tree-sitter gives it); the children of a node are the nodes one level   *)
(* deeper that follow it before the next node at its level or above.       *)
(***************************************************************************)
MaxNodes == 4        \* most nodes in a parse tree
MaxRow == 2          \* last row (0-indexed) of a source

\* The depths of n nodes in document order: the root at 0, every other node
\* at most one level below the node before it
DepthSeqs(n) ==
    {d \in [1..n -> 0..(n - 1)] :
        /\ d[1] = 0
        /\ \A i \in 2..n : d[i] >= 1 /\ d[i] <= d[i - 1] + 1}

\* The start rows of n nodes in document order: they never go back
RowSeqs(n) ==
    {r \in [1..n -> 0..MaxRow] : \A i \in 2..n : r[i - 1] <= r[i]}

\* The parse tree with the given root type, depths, rows and types of the
\* nodes below the root
TreeOf(root, d, r, t) ==
    [i \in 1..Len(d) |-> [type |-> IF i = 1 THEN root ELSE t[i], depth |-> d[i], row |-> r[i]]]

\* tr is a parse tree with the given root type, of at most MaxNodes nodes,
\* the types of the other nodes from pool
ParsedTree(tr, root, pool) ==
    \E n \in 1..MaxNodes :
        \E d \in DepthSeqs(n), r \in RowSeqs(n), t \in [2..n -> pool] :
            tr = Some(TreeOf(root, d, r, t))

\* node.children, in order
Children(nodes, i) ==
    SelectSeq([k \in 1..(Len(nodes) - i) |-> i + k],
              LAMBDA j : /\ nodes[j].depth = nodes[i].depth + 1
                         /\ \A k \in (i + 1)..j : nodes[k].depth > nodes[i].depth)

RECURSIVE WalkAll(_, _)
RECURSIVE Walk(_, _)
\* The nodes in the order a recursive walk over node.children visits them,
\* the node itself first
Walk(nodes, i) == <<i>> \o WalkAll(nodes, Children(nodes, i))

\* The walk of each node of the list in turn
WalkAll(nodes, list) ==
    IF list = <<>> THEN <<>>
    ELSE Walk(nodes, list[1]) \o WalkAll(nodes, SubSeq(list, 2, Len(list)))

\* node.start_point[0] + 1
LineOf(node) == node.row + 1

(***************************************************************************)
(* Focus range: BaseAnalyzer.in_focus_range and the archived               *)
(* TreeSitterAnalyzer._extract_nodes                                       *)
(***************************************************************************)
\* `if self.focus_start and ...`: None and 0 are both false
TruthyInt(o) == o # None /\ Val(o) # 0

\* A focus test in which every bound that is not None counts
in_focus_range_strict(start, end, line_num) ==
    /\ start # None => line_num >= Val(start)
    /\ end # None => line_num <= Val(end)

\* BaseAnalyzer.in_focus_range
in_focus_range(start, end, line_num) ==
    IF start = None /\ end = None THEN TRUE
    ELSE IF TruthyInt(start) /\ line_num < Val(start) THEN FALSE
    ELSE IF TruthyInt(end) /\ line_num > Val(end) THEN FALSE
    ELSE TRUE

\* _extract_nodes(node_type): the nodes of the type in visit order, those in
\* the focus range only, as {line} dicts (node: the node they were made from)
_extract_nodes(nodes, start, end, node_type) ==
    LET visited_nodes == Walk(nodes, 1)
        Kept(i) == nodes[i].type = node_type /\ in_focus_range(start, end, LineOf(nodes[i]))
    IN  [k \in 1..Len(SelectSeq(visited_nodes, Kept)) |->
            [line |-> LineOf(nodes[SelectSeq(visited_nodes, Kept)[k]]),
             node |-> SelectSeq(visited_nodes, Kept)[k]]]

\* The focus bounds a caller passes: None, or a line number as parsed from
\* file:LINE or file:START-END
FocusBounds == {None} \cup {Some(n) : n \in 0..(MaxRow + 1)}

\* The node types of the trees the focus range is tried on
FocusNodeTypes == {"function_definition", "block"}

\* No analyzer in this behaviour
ExtractIdle ==
    /\ source = ""
    /\ language = ""
    /\ tree = None
    /\ parse_error = None
    /\ focus_start = None
    /\ focus_end = None
    /\ extract_pc = "idle"
    /\ extract_op = ""
    /\ extract_arg = None
    /\ extract_result = None

\* An analyzer of the archived kind after __init__: the tree parsed, the
\* focus bounds stored
FocusInit ==
    /\ source = "valid"
    /\ language = "python"
    /\ ParsedTree(tree, "module", FocusNodeTypes)
    /\ parse_error = None
    /\ focus_start \in FocusBounds
    /\ focus_end \in FocusBounds
    /\ extract_pc = "parsed"
    /\ extract_op = ""
    /\ extract_arg = None
    /\ extract_result = None

\* TreeSitterAnalyzer._extract_nodes(node_type) of the archived analyzer
ExtractNodes ==
    /\ extract_pc = "parsed"
    /\ \E node_type \in FocusNodeTypes :
        /\ extract_arg' = Some(node_type)
        /\ extract_result' =
              Some(IF tree = None THEN <<>>
                   ELSE _extract_nodes(Val(tree), focus_start, focus_end, node_type))
    /\ extract_op' = "_extract_nodes"
    /\ extract_pc' = "done"
    /\ UNCHANGED <<source, language, tree, parse_error, focus_start, focus_end>>

FocusNext ==
    \/ ExtractNodes /\ UNCHANGED <<sliceVars, hierVars, rulesVars, relVars, typesVars, validVars, discVars, jsonlVars, updVars, queryVars, stdinVars>>

(***************************************************************************)
(* Complexity metric: TreeSitterAnalyzer._get_nesting_depth                *)
(***************************************************************************)
\* _get_nesting_depth: nesting_types
nesting_types == {
    "if_statement", "if_expression", "if",
    "for_statement", "for_expression", "for", "while_statement", "while",
    "try_statement", "try", "with_statement", "with",
    "match_statement", "match_expression", "case_statement",
    "do_statement", "switch_statement" }

RECURSIVE get_depth(_, _, _)
RECURSIVE DepthOverChildren(_, _, _, _)
\* get_depth(n, current_depth): the largest depth found under n, a child that
\* is a nesting construct being one level deeper than n
get_depth(nodes, n, current_depth) ==
    DepthOverChildren(nodes, Children(nodes, n), current_depth, current_depth)

\* get_depth's loop over the children still to visit, max_depth so far
DepthOverChildren(nodes, children, current_depth, max_depth) ==
    IF children = <<>> THEN max_depth
    ELSE LET child == children[1]
             child_depth == IF nodes[child].type \in nesting_types
                            THEN current_depth + 1 ELSE current_depth
             nested_depth == get_depth(nodes, child, child_depth)
         IN  DepthOverChildren(nodes, SubSeq(children, 2, Len(children)), current_depth,
                               Max(max_depth, nested_depth))

\* A metric that counts the nesting constructs under the node
CountNesting(nodes, node) ==
    Cardinality({j \in (node + 1)..Len(nodes) :
        /\ nodes[j].type \in nesting_types
        /\ \A k \in (node + 1)..j : nodes[k].depth > nodes[node].depth})

\* TreeSitterAnalyzer._get_nesting_depth(node)
_get_nesting_depth(nodes, node) == get_depth(nodes, node, 0)

\* The node types inside the functions measured
DepthNodeTypes == {"if_statement", "for_statement", "block"}

\* An analyzer whose tree is one function
DepthInit ==
    /\ source = "valid"
    /\ language = "python"
    /\ ParsedTree(tree, "function_definition", DepthNodeTypes)
    /\ parse_error = None
    /\ focus_start = None
    /\ focus_end = None
    /\ extract_pc = "parsed"
    /\ extract_op = ""
    /\ extract_arg = None
    /\ extract_result = None

\* _get_nesting_depth(node) for the function node
GetNestingDepth ==
    /\ extract_pc = "parsed"
    /\ tree # None
    /\ Val(tree)[1].type = "function_definition"
    /\ extract_arg' = Some(1)
    /\ extract_result' = Some(_get_nesting_depth(Val(tree), 1))
    /\ extract_op' = "_get_nesting_depth"
    /\ extract_pc' = "done"
    /\ UNCHANGED <<source, language, tree, parse_error, focus_start, focus_end>>

DepthNext ==
    \/ GetNestingDepth /\ UNCHANGED <<sliceVars, hierVars, rulesVars, relVars, typesVars, validVars, discVars, jsonlVars, updVars, queryVars, stdinVars>>

(***************************************************************************)
(* Structure extraction: TreeSitterAnalyzer.get_structure                  *)
(*                                                                         *)
(* An element keeps the node it was made from in place of the texts taken  *)
(* from the source (content, signature); its name is the node of the       *)
(* identifier.                                                             *)
(***************************************************************************)
import_types == <<"import_statement", "import_declaration", "use_declaration",
                  "using_directive", "import_from_statement">>

function_types == <<"function_definition", "function_declaration", "function_item",
                    "method_declaration", "function">>

class_types == <<"class_definition", "class_declaration", "struct_item">>

struct_types == <<"struct_item", "struct_specifier", "struct_declaration">>

\* TreeSitterAnalyzer._find_nodes_by_type
_find_nodes_by_type(nodes, node_type) ==
    SelectSeq(Walk(nodes, 1), LAMBDA i : nodes[i].type = node_type)

RECURSIVE FindEachType(_, _)
\* for node_type in node_types: for node in self._find_nodes_by_type(node_type)
FindEachType(nodes, node_types) ==
    IF node_types = <<>> THEN <<>>
    ELSE _find_nodes_by_type(nodes, node_types[1])
         \o FindEachType(nodes, SubSeq(node_types, 2, Len(node_types)))

\* TreeSitterAnalyzer._get_node_name: the first child that is an identifier
\* or a name, None without one
_get_node_name(nodes, node) ==
    LET named == SelectSeq(Children(nodes, node),
                           LAMBDA c : nodes[c].type \in {"identifier", "name"})
    IN  IF named = <<>> THEN None ELSE Some(named[1])

\* node.end_point[0] + 1: a node ends where the last node inside it starts
EndLineOf(nodes, node) ==
    LineOf(nodes[CHOOSE j \in node..Len(nodes) :
                    /\ \A k \in (node + 1)..j : nodes[k].depth > nodes[node].depth
                    /\ j = Len(nodes) \/ nodes[j + 1].depth <= nodes[node].depth])

\* _extract_imports
_extract_imports(nodes) ==
    LET found == FindEachType(nodes, import_types)
    IN  [k \in 1..Len(found) |-> [line |-> LineOf(nodes[found[k]]), node |-> found[k]]]

\* The named nodes of the types, as elements with line, line_end and name
NamedElements(nodes, node_types) ==
    LET found == SelectSeq(FindEachType(nodes, node_types),
                           LAMBDA i : _get_node_name(nodes, i) # None)
    IN  [k \in 1..Len(found) |->
            [line |-> LineOf(nodes[found[k]]),
             line_end |-> EndLineOf(nodes, found[k]),
             name |-> Val(_get_node_name(nodes, found[k])),
             node |-> found[k]]]

\* _extract_functions: line_count and depth besides
_extract_functions(nodes) ==
    LET named == NamedElements(nodes, function_types)
    IN  [k \in 1..Len(named) |->
            [line |-> named[k].line,
             line_end |-> named[k].line_end,
             name |-> named[k].name,
             node |-> named[k].node,
             line_count |-> named[k].line_end - named[k].line + 1,
             depth |-> _get_nesting_depth(nodes, named[k].node)]]

\* _extract_classes
_extract_classes(nodes) == NamedElements(nodes, class_types)

\* _extract_structs
_extract_structs(nodes) == NamedElements(nodes, struct_types)

\* {k: v for k, v in structure.items() if v}
WithoutEmpty(structure) ==
    [k \in {c \in DOMAIN structure : structure[c] # <<>>} |-> structure[k]]

\* TreeSitterAnalyzer.get_structure
get_structure(tr) ==
    IF tr = None THEN EmptyDict
    ELSE WithoutEmpty(
            [k \in {"imports", "functions", "classes", "structs"} |->
                CASE k = "imports" -> _extract_imports(Val(tr))
                  [] k = "functions" -> _extract_functions(Val(tr))
                  [] k = "classes" -> _extract_classes(Val(tr))
                  [] k = "structs" -> _extract_structs(Val(tr))])

\* The node types of the sources whose structure is extracted
StructureNodeTypes ==
    {"import_statement", "import_from_statement", "function_definition", "class_definition",
     "identifier"}

\* A TreeSitterAnalyzer after __init__, the source parsed
StructureInit ==
    /\ source = "valid"
    /\ language = "python"
    /\ ParsedTree(tree, "module", StructureNodeTypes)
    /\ parse_error = None
    /\ focus_start = None
    /\ focus_end = None
    /\ extract_pc = "parsed"
    /\ extract_op = "_parse_tree"
    /\ extract_arg = None
    /\ extract_result = None

\* TreeSitterAnalyzer.get_structure()
GetStructure ==
    /\ extract_pc = "parsed"
    /\ extract_op = "_parse_tree"
    /\ extract_result' = Some(get_structure(tree))
    /\ extract_op' = "get_structure"
    /\ extract_pc' = "done"
    /\ UNCHANGED <<source, language, tree, parse_error, focus_start, focus_end, extract_arg>>

StructureNext ==
    \/ GetStructure /\ UNCHANGED <<sliceVars, hierVars, rulesVars, relVars, typesVars, validVars, discVars, jsonlVars, updVars, queryVars, stdinVars>>

(***************************************************************************)
(* Parsing: TreeSitterAnalyzer._parse_tree and PythonAnalyzer.__init__,    *)
(* followed by the extraction of the structure                             *)
(***************************************************************************)
\* The languages get_parser has a grammar for
SupportedLanguages == {"python"}

\* Node types of the trees tree-sitter returns; it marks what it could not
\* parse with ERROR nodes
ParseNodeTypes == {"function_definition", "identifier"}

\* Node types of the trees ast.parse returns
AstNodeTypes == {"Import", "FunctionDef", "Assign"}

\* An analyzer about to be constructed on a source
ParseInit ==
    /\ source \in {"valid", "malformed"}
    /\ language \in {"python", "cobol"}
    /\ tree = None
    /\ parse_error = None
    /\ focus_start = None
    /\ focus_end = None
    /\ extract_pc = "new"
    /\ extract_op = ""
    /\ extract_arg = None
    /\ extract_result = None

\* TreeSitterAnalyzer.__init__ with _parse_tree: get_parser raises for a
\* language it does not know; parser.parse returns a tree, with ERROR nodes
\* for a malformed source, or raises; except Exception leaves self.tree None
ParseTree ==
    /\ extract_pc = "new"
    /\ IF language \notin SupportedLanguages
       THEN tree' = None
       ELSE IF source = "valid"
            THEN ParsedTree(tree', "module", ParseNodeTypes)
            ELSE \/ tree' = None
                 \/ /\ ParsedTree(tree', "module", ParseNodeTypes \cup {"ERROR"})
                    /\ \E i \in 1..Len(Val(tree')) : Val(tree')[i].type = "ERROR"
    /\ extract_op' = "_parse_tree"
    /\ extract_pc' = "parsed"
    /\ UNCHANGED <<source, language, parse_error, focus_start, focus_end, extract_arg,
                   extract_result>>

\* PythonAnalyzer.__init__: ast.parse raises on a malformed source and
\* parse_error keeps the message
PythonParse ==
    /\ extract_pc = "new"
    /\ language = "python"
    /\ IF source = "valid"
       THEN /\ ParsedTree(tree', "Module", AstNodeTypes)
            /\ parse_error' = None
       ELSE /\ tree' = None
            /\ parse_error' = Some("invalid syntax")
    /\ extract_op' = "ast.parse"
    /\ extract_pc' = "parsed"
    /\ UNCHANGED <<source, language, focus_start, focus_end, extract_arg, extract_result>>

RECURSIVE ast_walk(_, _)
\* ast.walk: breadth first from the nodes of todo
ast_walk(nodes, todo) ==
    IF todo = <<>> THEN <<>>
    ELSE <<todo[1]>> \o ast_walk(nodes, Tail(todo) \o Children(nodes, todo[1]))

\* The nodes of self.tree.body of one type, as {'name': ..., 'line': node.lineno}
TopLevel(nodes, node_type) ==
    LET found == SelectSeq(Children(nodes, 1), LAMBDA i : nodes[i].type = node_type)
    IN  [k \in 1..Len(found) |-> [name |-> found[k], line |-> LineOf(nodes[found[k]])]]

\* PythonAnalyzer.analyze_structure
analyze_structure(tr, error) ==
    IF error # None
    THEN [error |-> Val(error), imports |-> <<>>, classes |-> <<>>, functions |-> <<>>,
          assignments |-> <<>>]
    ELSE [imports |-> SelectSeq(ast_walk(Val(tr), <<1>>),
                                LAMBDA i : Val(tr)[i].type \in {"Import", "ImportFrom"}),
          classes |-> TopLevel(Val(tr), "ClassDef"),
          functions |-> TopLevel(Val(tr), "FunctionDef"),
          assignments |-> TopLevel(Val(tr), "Assign")]

\* PythonAnalyzer.analyze_structure()
AnalyzeStructure ==
    /\ extract_pc = "parsed"
    /\ extract_op = "ast.parse"
    /\ extract_result' = Some(analyze_structure(tree, parse_error))
    /\ extract_op' = "analyze_structure"
    /\ extract_pc' = "done"
    /\ UNCHANGED <<source, language, tree, parse_error, focus_start, focus_end, extract_arg>>

ParseNext ==
    \/ ParseTree /\ UNCHANGED <<sliceVars, hierVars, rulesVars, relVars, typesVars, validVars, discVars, jsonlVars, updVars, queryVars, stdinVars>>
    \/ GetStructure /\ UNCHANGED <<sliceVars, hierVars, rulesVars, relVars, typesVars, validVars, discVars, jsonlVars, updVars, queryVars, stdinVars>>
    \/ PythonParse /\ UNCHANGED <<sliceVars, hierVars, rulesVars, relVars, typesVars, validVars, discVars, jsonlVars, updVars, queryVars, stdinVars>>
    \/ AnalyzeStructure /\ UNCHANGED <<sliceVars, hierVars, rulesVars, relVars, typesVars, validVars, discVars, jsonlVars, updVars, queryVars, stdinVars>>

(***************************************************************************)
(* Specifications                                                          *)
(***************************************************************************)
\* Each component alone, the others idle
InitSlice == SliceInit /\ HierIdle /\ RulesIdle /\ RelIdle /\ TypesIdle /\ ExtractIdle /\ ValidIdle /\ DiscIdle /\ JsonlIdle /\ UpdIdle /\ QueryIdle /\ StdinIdle
InitHierarchy == SliceIdle /\ HierInit /\ RulesIdle /\ RelIdle /\ TypesIdle /\ ExtractIdle /\ ValidIdle /\ DiscIdle /\ JsonlIdle /\ UpdIdle /\ QueryIdle /\ StdinIdle
InitRules == SliceIdle /\ HierIdle /\ RulesInit /\ RelIdle /\ TypesIdle /\ ExtractIdle /\ ValidIdle /\ DiscIdle /\ JsonlIdle /\ UpdIdle /\ QueryIdle /\ StdinIdle
InitRelationships == SliceIdle /\ HierIdle /\ RulesIdle /\ RelInit /\ TypesIdle /\ ExtractIdle /\ ValidIdle /\ DiscIdle /\ JsonlIdle /\ UpdIdle /\ QueryIdle /\ StdinIdle

SpecSlice == InitSlice /\ [][SliceNext]_vars
SpecHierarchy == InitHierarchy /\ [][HierNext]_vars
SpecRules == InitRules /\ [][RulesNext]_vars

\* traverse_transitive runs to its end once called: it is synchronous code
SpecTraverse == InitRelationships /\ [][TraverseNext]_vars /\ WF_vars(TraverseNext)

SpecIndex == InitRelationships /\ [][IndexNext]_vars

InitTypes == SliceIdle /\ HierIdle /\ RulesIdle /\ RelIdle /\ TypesInit /\ ExtractIdle /\ ValidIdle /\ DiscIdle /\ JsonlIdle /\ UpdIdle /\ QueryIdle /\ StdinIdle
SpecTypes == InitTypes /\ [][TypesNext]_vars

InitValid == SliceIdle /\ HierIdle /\ RulesIdle /\ RelIdle /\ ExtractIdle /\ ValidInit /\ DiscIdle /\ JsonlIdle /\ UpdIdle /\ QueryIdle /\ StdinIdle
SpecValid == InitValid /\ [][ValidNext]_vars

InitDiscover == SliceIdle /\ HierIdle /\ RelIdle /\ TypesIdle /\ ExtractIdle /\ ValidIdle /\ DiscInit /\ JsonlIdle /\ UpdIdle /\ QueryIdle /\ StdinIdle
SpecDiscover == InitDiscover /\ [][DiscoverNext]_vars

InitJsonl == SliceIdle /\ HierIdle /\ RulesIdle /\ RelIdle /\ TypesIdle /\ ExtractIdle /\ ValidIdle /\ DiscIdle /\ JsonlInit /\ UpdIdle /\ QueryIdle /\ StdinIdle
SpecJsonl == InitJsonl /\ [][JsonlNext]_vars

InitUpdate == SliceIdle /\ HierIdle /\ RulesIdle /\ RelIdle /\ TypesIdle /\ ExtractIdle /\ ValidIdle /\ DiscIdle /\ JsonlIdle /\ UpdInit /\ QueryIdle /\ StdinIdle
SpecUpdate == InitUpdate /\ [][UpdateNext]_vars

InitQuery == SliceIdle /\ HierIdle /\ RulesIdle /\ RelIdle /\ TypesIdle /\ ExtractIdle /\ ValidIdle /\ DiscIdle /\ JsonlIdle /\ UpdIdle /\ QueryInit /\ StdinIdle
SpecQuery == InitQuery /\ [][QueryNext]_vars

InitStdin == SliceIdle /\ HierIdle /\ RulesIdle /\ RelIdle /\ TypesIdle /\ ExtractIdle /\ ValidIdle /\ DiscIdle /\ JsonlIdle /\ UpdIdle /\ QueryIdle /\ StdinInit
SpecStdin == InitStdin /\ [][StdinNext]_vars

InitFocus == SliceIdle /\ HierIdle /\ RulesIdle /\ RelIdle /\ TypesIdle /\ FocusInit /\ ValidIdle /\ DiscIdle /\ JsonlIdle /\ UpdIdle /\ QueryIdle /\ StdinIdle
SpecFocus == InitFocus /\ [][FocusNext]_vars

InitDepth == SliceIdle /\ HierIdle /\ RulesIdle /\ RelIdle /\ TypesIdle /\ DepthInit /\ ValidIdle /\ DiscIdle /\ JsonlIdle /\ UpdIdle /\ QueryIdle /\ StdinIdle
SpecDepth == InitDepth /\ [][DepthNext]_vars

InitStructure == SliceIdle /\ HierIdle /\ RulesIdle /\ RelIdle /\ TypesIdle /\ StructureInit /\ ValidIdle /\ DiscIdle /\ JsonlIdle /\ UpdIdle /\ QueryIdle /\ StdinIdle
SpecStructure == InitStructure /\ [][StructureNext]_vars

InitParse == SliceIdle /\ HierIdle /\ RulesIdle /\ RelIdle /\ TypesIdle /\ ParseInit /\ ValidIdle /\ DiscIdle /\ JsonlIdle /\ UpdIdle /\ QueryIdle /\ StdinIdle
SpecParse == InitParse /\ [][ParseNext]_vars

\* One component per behaviour
Init == InitSlice \/ InitHierarchy \/ InitRules \/ InitRelationships \/ InitTypes
        \/ InitFocus \/ InitDepth \/ InitStructure \/ InitParse \/ InitValid
        \/ InitDiscover \/ InitJsonl \/ InitUpdate \/ InitQuery \/ InitStdin

Next == SliceNext \/ HierNext \/ RulesNext \/ TraverseNext \/ IndexNext \/ TypesNext
        \/ FocusNext \/ DepthNext \/ StructureNext \/ ParseNext \/ ValidNext
        \/ DiscoverNext \/ JsonlNext \/ UpdateNext \/ QueryNext \/ StdinNext

Spec == Init /\ [][Next]_vars

(***************************************************************************)
(* Properties                                                              *)
(***************************************************************************)
RECURSIVE Preorder(_, _, _)
\* The pre-order walk of the forest under the nodes `nodes` of all_items,
\* as far as `fuel` levels deep
Preorder(all, nodes, fuel) ==
    IF nodes = <<>> \/ fuel = 0 THEN <<>>
    ELSE <<nodes[1]>> \o Preorder(all, all[nodes[1]].children, fuel - 1)
                     \o Preorder(all, SubSeq(nodes, 2, Len(nodes)), fuel)

\* The pre-order flattening of the returned forest
Flattened == Preorder(hier_all, hier_result, Len(hier_all) + 1)

\* The input elements of the structure, as <<category, position>>
InputElements ==
    {<<c, k>> : c \in DOMAIN hier_structure, k \in 1..MaxElems} \cap
    UNION {{<<c, k>> : k \in 1..Len(hier_structure[c])} : c \in DOMAIN hier_structure}

\* C1: flattening the forest build_hierarchy returns in pre-order yields
\* every input element exactly once, with its lines unchanged, and no element
\* is a child of more than one node.
C1_FlattenIsPermutation ==
    hier_pc = "done" =>
        LET flat == Flattened
            n == Len(hier_all)
        IN  /\ Len(flat) = Cardinality(InputElements)
            /\ \A e \in InputElements :
                  \E p \in 1..Len(flat) :
                      /\ hier_all[flat[p]].src = e
                      /\ hier_all[flat[p]].line = hier_structure[e[1]][e[2]].line
                      /\ hier_all[flat[p]].line_end = hier_structure[e[1]][e[2]].line_end
                      /\ \A q \in 1..Len(flat) : hier_all[flat[q]].src = e => q = p
            /\ \A p, q \in 1..n :
                  \A k \in 1..Len(hier_all[p].children), m \in 1..Len(hier_all[q].children) :
                      hier_all[p].children[k] = hier_all[q].children[m] => (p = q /\ k = m)

\* Three elements nested in one another, from both categories
C1_Witness ==
    /\ hier_pc = "done"
    /\ Len(hier_structure["classes"]) = 1
    /\ Len(hier_structure["functions"]) = 2
    /\ Len(hier_result) = 1
    /\ \E i, j \in 1..Len(hier_all) :
          /\ hier_all[hier_result[1]].children = <<i>>
          /\ hier_all[i].children = <<j>>
    /\ Len(Flattened) = 3

\* A pattern matches a rule: it equals the code, is a prefix of the code, or
\* equals the rule's category tag
PatternMatchesRule(pattern, rule) ==
    \/ pattern = rule.code
    \/ \E n \in 0..Len(rule.code) : pattern = [k \in 1..n |-> rule.code[k]]
    \/ rule.category # None /\ pattern = Val(rule.category)

\* A list that is None or empty
EmptyList(list) == list = None \/ Val(list) = <<>>

\* A rule is active under select and ignore
ActiveRule(rule, select, ignore) ==
    /\ rule.enabled
    /\ EmptyList(select) \/ \E k \in 1..Len(Val(select)) : PatternMatchesRule(Val(select)[k], rule)
    /\ EmptyList(ignore) \/ \A k \in 1..Len(Val(ignore)) : ~PatternMatchesRule(Val(ignore)[k], rule)

InList(x, list) == \E k \in 1..Len(list) : list[k] = x

\* C5: get_rules(select, ignore) returns exactly the discovered rules that are
\* enabled, match some select pattern (when select is not empty) and match no
\* ignore pattern (when ignore is not empty); rule B001 of category B is
\* selected by each of B, B0 and B001 as select and excluded by each as ignore.
C5_GetRulesReturnsActive ==
    rules_pc = "got" =>
        /\ rules_local = SelectSeq(_rules, LAMBDA r : ActiveRule(r, arg_select, arg_ignore))
        /\ \A p \in {<<"B">>, <<"B", "0">>, <<"B", "0", "0", "1">>} :
              InList(RuleClasses[1], _rules) =>
                  /\ (arg_select = Some(<<p>>) /\ EmptyList(arg_ignore))
                        => InList(RuleClasses[1], rules_local)
                  /\ arg_ignore = Some(<<p>>) => ~InList(RuleClasses[1], rules_local)

\* Of B001, C901 and N801 (category B), select=["B0"] keeps B001 alone
C5_Witness ==
    /\ rules_pc = "got"
    /\ _rules = <<RuleClasses[1], RuleClasses[3], RuleClasses[5]>>
    /\ arg_select = Some(<<<<"B", "0">>>>)
    /\ arg_ignore = None
    /\ rules_local = <<RuleClasses[1]>>

\* The rules check_file has called check on, in call order
CalledRules == [c \in 1..Len(check_calls) |-> rules_local[check_calls[c][1]]]

\* C6: check_file calls check only on rules that are active under select and
\* ignore and applicable to the target; with B001, B002 and C901 registered
\* and applicable, select=["B"] runs B001 and B002 and never C901.
C6_OnlyActiveApplicableRun ==
    /\ \A c \in 1..Len(check_calls) :
          /\ InList(CalledRules[c], _rules)
          /\ ActiveRule(CalledRules[c], arg_select, arg_ignore)
          /\ matches_target(CalledRules[c], Val(arg_target))
    /\ (/\ _rules = <<RuleClasses[1], RuleClasses[2], RuleClasses[3]>>
        /\ rules_pc \in {"loop", "returned"}
        /\ arg_select = Some(<<<<"B">>>>)
        /\ EmptyList(arg_ignore)
        /\ \A k \in 1..3 : matches_target(RuleClasses[k], Val(arg_target)))
       => /\ \A c \in 1..Len(check_calls) : CalledRules[c] # RuleClasses[3]
          /\ rules_pc = "returned" => CalledRules = <<RuleClasses[1], RuleClasses[2]>>

\* The scenario: B001, B002 and C901 registered, select=["B"], a .PY target
C6_Witness ==
    /\ rules_pc = "returned"
    /\ _rules = <<RuleClasses[1], RuleClasses[2], RuleClasses[3]>>
    /\ arg_select = Some(<<<<"B">>>>)
    /\ arg_ignore = None
    /\ Val(arg_target).text = "src/APP.PY"
    /\ CalledRules = <<RuleClasses[1], RuleClasses[2]>>

RECURSIVE ReturnedBy(_)
\* The detections the check calls returned, in call order
ReturnedBy(calls) ==
    IF calls = <<>> THEN <<>>
    ELSE ReturnedBy(SubSeq(calls, 1, Len(calls) - 1)) \o calls[Len(calls)][2].returned

\* C7: when a rule's check raises during check_file, check_file goes on and
\* returns: the result holds no detection of that rule, and every other active
\* applicable rule is run, with all its detections in the result.
C7_RaisingRuleIsolated ==
    (rules_pc \in {"loop", "returned"}
        /\ \E c \in 1..Len(check_calls) : check_calls[c][2].raised) =>
        /\ [c \in 1..Len(check_calls) |-> check_calls[c][1]]
              = SelectSeq([k \in 1..(rules_i - 1) |-> k],
                          LAMBDA k : matches_target(rules_local[k], Val(arg_target)))
        /\ rules_pc = "returned" => rules_i = Len(rules_local) + 1
        /\ detections = ReturnedBy(check_calls)
        /\ \A c \in 1..Len(check_calls) :
              check_calls[c][2].raised =>
                  /\ InList(CalledRules[c].code, error_log)
                  /\ \A k \in 1..Len(detections) : detections[k].rule_code # CalledRules[c].code

\* check_file returned although the second of three rules raised, with the
\* detections of the first and the third
C7_Witness ==
    /\ rules_pc = "returned"
    /\ Len(check_calls) = 3
    /\ ~check_calls[1][2].raised /\ check_calls[2][2].raised /\ ~check_calls[3][2].raised
    /\ detections = check_calls[1][2].returned \o check_calls[3][2].returned
    /\ Len(detections) = 2

\* The targets of the edges that start at an entity of `from`
Successors(from) == {edges[k].to : k \in {j \in 1..Len(edges) : edges[j].from \in from}}

RECURSIVE Closure(_)
\* The least set that holds `found` and the successors of its members
Closure(found) ==
    IF Successors(found) \subseteq found THEN found ELSE Closure(found \cup Successors(found))

\* The entities other than the start that forward edges lead to from the start
ReachableFromStart == Closure(Successors({Val(start_entity)})) \ {Val(start_entity)}

\* C8: for a transitive relationship traverse_transitive returns every entity
\* reachable from the start over forward edges, each exactly once, whatever
\* the edge list (chains, diamonds, repeated edges, cycles).
C8_ReachableExactlyOnce ==
    (rel_pc = "done" /\ rel_name \in DOMAIN relationships /\ relationships[rel_name].transitive) =>
        /\ {reachable[k] : k \in 1..Len(reachable)} = ReachableFromStart
        /\ \A i, j \in 1..Len(reachable) : reachable[i] = reachable[j] => i = j

RECURSIVE LoopStepsLeft(_)
\* The loop steps and returns the active calls of traverse have left, were
\* no further call made
LoopStepsLeft(frames) ==
    IF frames = <<>> THEN 0
    ELSE LoopStepsLeft(SubSeq(frames, 1, Len(frames) - 1))
         + (Len(edges) + 2 - frames[Len(frames)].k)

\* A bound on the steps traverse_transitive has left: every entity not yet
\* visited may still be expanded once, over every edge
StepsLeft ==
    Cardinality({EntityId(e) : e \in Entities} \ visited) * (Len(edges) + 2)
    + LoopStepsLeft(stack)
    + (IF rel_pc = "traverse" THEN 1 ELSE 0)

\* C9: traverse_transitive terminates for every finite edge list and start
\* entity, cycles and self-loops included, and expands each entity at most
\* once: while it runs it can always take a step, every step lowers the
\* bound StepsLeft, which is never negative, and no entity id is added to
\* visited twice.
C9_TraverseTerminates ==
    /\ [][rel_pc = "traverse" => (StepsLeft' < StepsLeft /\ StepsLeft' >= 0)]_vars
    /\ [](rel_pc = "traverse" => ENABLED TraverseNext)
    /\ [](\A i, j \in 1..Len(expansions) : expansions[i] = expansions[j] => i = j)

\* A traversal that ended on an edge list with a self-loop and a two-entity cycle
C9_Witness ==
    /\ rel_pc = "done"
    /\ \E k \in 1..Len(edges) : edges[k].from = edges[k].to /\ edges[k].from = Val(start_entity)
    /\ \E i, j \in 1..Len(edges) :
          /\ edges[i].from # edges[i].to
          /\ edges[i].from = edges[j].to /\ edges[i].to = edges[j].from
          /\ edges[i].from = Val(start_entity)
    /\ Len(expansions) = 2

\* How many times the edge e occurs in the list es
CountEdge(es, e) == Cardinality({k \in 1..Len(es) : es[k] = e})

\* The names given with the data whose registered reverse name is rev
ForwardNamesOf(rev) ==
    {name \in DOMAIN data_given :
        /\ name \in DOMAIN relationships
        /\ relationships[name].bidirectional
        /\ relationships[name].reverse_name = Some(rev)}

RECURSIVE SumOver(_, _)
\* The sum of f over the finite set S
SumOver(f, S) ==
    IF S = {} THEN 0
    ELSE LET x == CHOOSE y \in S : TRUE IN f[x] + SumOver(f, S \ {x})

\* How many forward edges of the data given have the reverse edge e under rev
ForwardEdgesFor(rev, e) ==
    SumOver([name \in ForwardNamesOf(rev) |-> CountEdge(data_given[name], ReverseEdge(e))],
            ForwardNamesOf(rev))

\* The reverse names of the registered bidirectional relationships
ReverseNames ==
    {Val(relationships[name].reverse_name) :
        name \in {n \in DOMAIN relationships : relationships[n].bidirectional}}

\* C10: for every relationship R registered as bidirectional with reverse
\* name R' and every forward edge (A,B) of the data given to build_index, the
\* returned index holds under R' exactly one edge (B,A) for that forward
\* edge, from/to swapped and every other property identical: under R' every
\* edge occurs as often as it was given under R' plus once per forward edge
\* it is the reverse of.
C10_OneReverseEdgePerForwardEdge ==
    rel_pc = "indexed" =>
        \A rev \in ReverseNames : \A e \in IndexEdges :
            CountEdge(DictGet(Val(index_result), rev, <<>>), e)
                = CountEdge(DictGet(data_given, rev, <<>>), e) + ForwardEdgesFor(rev, e)

\* The items of s at the 1-indexed positions a..b, in order (empty when a > b)
Positions(s, a, b) == [i \in 1..(b - a + 1) |-> s[a + i - 1]]

\* C2: for every list and every N >= 0, tail=N returns the last
\* min(N, len(items)) items in their original order (tail=0 returns the
\* empty list).
C2_TailReturnsLastN ==
    (slice_pc = "done" /\ slice_tail # None /\ Val(slice_tail) >= 0) =>
        LET n == Min(Val(slice_tail), Len(slice_items))
        IN  slice_result = Positions(slice_items, Len(slice_items) - n + 1, Len(slice_items))

\* C3: for every list and every 1 <= a <= b, range=(a,b) returns the items at
\* the 1-indexed positions a..b, in order, a bound beyond the list clipped to
\* the list's length.
C3_RangeReturnsPositions ==
    (slice_pc = "done" /\ slice_range # None
        /\ 1 <= Val(slice_range)[1] /\ Val(slice_range)[1] <= Val(slice_range)[2]) =>
        slice_result = Positions(slice_items, Val(slice_range)[1],
                                 Min(Val(slice_range)[2], Len(slice_items)))

\* A range whose end bound is clipped: range=(2,4) on a list of three items
C3_Witness ==
    /\ slice_pc = "done"
    /\ slice_range = Some(<<2, 4>>)
    /\ Len(slice_items) = 3
    /\ slice_result = <<slice_items[2], slice_items[3]>>

\* C4: for every list and every N >= 0, head=N returns the first
\* min(N, len(items)) items in their original order.
C4_HeadReturnsFirstN ==
    (slice_pc = "done" /\ slice_head # None /\ Val(slice_head) >= 0) =>
        slice_result = Positions(slice_items, 1, Min(Val(slice_head), Len(slice_items)))

\* head=2 on a list of three items returns the first two
C4_Witness ==
    /\ slice_pc = "done"
    /\ slice_head = Some(2)
    /\ Len(slice_items) = 3
    /\ slice_result = <<slice_items[1], slice_items[2]>>

\* The parent of the type at position i of the schema, as a position
\* (0 when the type has no parent or the parent is not registered)
ParentPos(schema, i) ==
    IF schema[i].value.inherits = None THEN 0
    ELSE IF ~HasKey(schema, Val(schema[i].value.inherits)) THEN 0
    ELSE CHOOSE j \in 1..Len(schema) : schema[j].key = Val(schema[i].value.inherits)

RECURSIVE KthAncestor(_, _, _)
\* The k-th ancestor of the type at position i (0 when the chain ends before)
KthAncestor(schema, i, k) ==
    IF i = 0 \/ k = 0 THEN i ELSE KthAncestor(schema, ParentPos(schema, i), k - 1)

\* The inheritance chain of some type comes back to the type
Circular(schema) ==
    \E i \in 1..Len(schema) : \E k \in 1..Len(schema) : KthAncestor(schema, i, k) = i

\* A bound on the steps a running resolve_inheritance has left
ResolveStepsLeft ==
    IF types_pc # "resolving" THEN 0
    ELSE 1 + 2 * (Len(type_keys) + 1 - resolve_i)
           + 2 * Cardinality({type_keys[i] : i \in 1..Len(type_keys)} \ (resolved \cup in_progress))
           + Len(resolve_stack)

\* C11: resolve_inheritance on a registry whose types hold a circular
\* inheritance chain (two types inheriting each other, a longer cycle, a type
\* inheriting itself) ends by raising an error to the caller, whatever the
\* order of the types: while it runs it can always take a step, every step
\* lowers the bound ResolveStepsLeft, which is never negative, and on a
\* circular schema it never returns normally.
C11_CircularInheritanceRaises ==
    /\ [][types_pc = "resolving" =>
            (ResolveStepsLeft' < ResolveStepsLeft /\ ResolveStepsLeft' >= 0)]_vars
    /\ [](types_pc = "resolving" => ENABLED TypesNext)
    /\ [](Circular(types_given) => (~_inheritance_resolved /\ types_pc \notin {"returned", "cached"}))

\* The error raised on a schema whose three types inherit one another in a ring
C11_Witness ==
    /\ types_pc = "raised"
    /\ Cardinality(in_progress) = 3
    /\ \A i \in 1..3 : KthAncestor(types_given, i, 3) = i /\ KthAncestor(types_given, i, 1) # i

\* The overlay of two mappings: the child's value wherever it has the key
Overlay(parent, child) ==
    [key \in DOMAIN parent \cup DOMAIN child |->
        IF key \in DOMAIN child THEN child[key] ELSE parent[key]]

RECURSIVE ResolvedProperties(_, _, _)
\* The properties the type at position i of the declared schema resolves to:
\* those of its registered parent, resolved, overlaid with its own
ResolvedProperties(schema, i, fuel) ==
    IF ParentPos(schema, i) = 0 \/ fuel = 0 THEN AsMap(schema[i].value.properties)
    ELSE Overlay(ResolvedProperties(schema, ParentPos(schema, i), fuel - 1),
                 AsMap(schema[i].value.properties))

\* C12: after resolve_inheritance on an acyclic schema every type with a
\* registered parent has the parent's fully resolved properties overlaid with
\* its own, the child's value overriding the parent's under the same name,
\* for chains of any length and any registration order.
C12_ChildOverlaysResolvedParent ==
    (types_pc \in {"returned", "cached"} /\ ~Circular(types_given)) =>
        \A i \in 1..Len(types) :
            /\ AsMap(types[i].value.properties) = ResolvedProperties(types_given, i, Len(types))
            /\ ParentPos(types_given, i) # 0 =>
                  AsMap(types[i].value.properties) =
                      Overlay(AsMap(types[ParentPos(types_given, i)].value.properties),
                              AsMap(types_given[i].value.properties))

\* A chain of three, each child registered before its parent: Base{x:int},
\* above it a type adding y:str, above that one overriding x with str
C12_Witness ==
    /\ types_pc = "returned"
    /\ ParentPos(types_given, 1) = 2 /\ ParentPos(types_given, 2) = 3 /\ ParentPos(types_given, 3) = 0
    /\ AsMap(types_given[3].value.properties) = [key \in {"x"} |-> "int"]
    /\ AsMap(types[2].value.properties) = [key \in {"x", "y"} |-> IF key = "x" THEN "int" ELSE "str"]
    /\ AsMap(types[1].value.properties) = [key \in {"x", "y"} |-> "str"]

\* C13: inheritance resolution is idempotent: after a further call of
\* resolve_inheritance, directly or after register_types has registered the
\* same definitions again, the properties, contains and searchable of every
\* type are as the first resolution left them.
C13_ResolutionIdempotent ==
    (types_pc \in {"returned", "cached"} /\ types_first # None) =>
        /\ Len(types) = Len(Val(types_first))
        /\ \A i \in 1..Len(types) :
            /\ types[i].key = Val(types_first)[i].key
            /\ types[i].value.properties = Val(types_first)[i].value.properties
            /\ types[i].value.contains = Val(types_first)[i].value.contains
            /\ types[i].value.searchable = Val(types_first)[i].value.searchable

\* A second resolution that ran to its end after register_types was given
\* the already resolved objects of a chain of three
C13_Witness ==
    /\ types_pc = "returned"
    /\ resolutions = 2
    /\ registered_from = "held"
    /\ ParentPos(types_given, 1) = 2 /\ ParentPos(types_given, 2) = 3
    /\ Len(types[1].value.contains) = 2
    /\ Len(types[1].value.searchable) = 2

\* The nodes of the tree that have the type, in document order
NodesOfType(nodes, node_type) ==
    SelectSeq([i \in 1..Len(nodes) |-> i], LAMBDA i : nodes[i].type = node_type)

\* C14: when a focus range [s,e] is supplied to the extractor, every element
\* returned satisfies s <= line_start <= e, for every supplied s and e; when
\* no focus range is supplied all matching elements are kept.
C14_ElementsWithinFocus ==
    (extract_pc = "done" /\ extract_op = "_extract_nodes") =>
        /\ (focus_start # None /\ focus_end # None) =>
              \A k \in 1..Len(Val(extract_result)) :
                  /\ Val(focus_start) <= Val(extract_result)[k].line
                  /\ Val(extract_result)[k].line <= Val(focus_end)
        /\ (focus_start = None /\ focus_end = None) =>
              [k \in 1..Len(Val(extract_result)) |-> Val(extract_result)[k].node]
                  = NodesOfType(Val(tree), Val(extract_arg))

\* Node a is node j or an ancestor of node j
AncestorOrSelf(nodes, a, j) ==
    a <= j /\ \A k \in (a + 1)..j : nodes[k].depth > nodes[a].depth

\* The control-flow constructs nested inside one another down to node j,
\* the node `node` itself not counted
NestedConstructs(nodes, node, j) ==
    {a \in (node + 1)..j : AncestorOrSelf(nodes, a, j) /\ nodes[a].type \in nesting_types}

\* The largest member of a non-empty finite set of numbers
MaxOf(S) == CHOOSE x \in S : \A y \in S : y <= x

OriginalIndex(item) ==
    (IF item.src[1] = Categories[1] THEN 0 ELSE MaxElems + 1) + item.src[2]

\* The start and end line of an input element, defaulted as the builder does
StartOf(el) == IF el.line = None THEN 0 ELSE Val(el.line)
EndOf(el) == IF el.line_end = None THEN StartOf(el) ELSE Val(el.line_end)

\* The placed items before item i whose range strictly contains item i's
EnclosingCandidates(all, i) ==
    {j \in 1..(i - 1) :
        /\ StartOf(all[j]) < StartOf(all[i])
        /\ EndOf(all[j]) >= EndOf(all[i])}

\* The items that hold item i among their children
ParentsOf(all, i) ==
    {j \in 1..Len(all) : \E k \in 1..Len(all[j].children) : all[j].children[k] = i}

\* C17: build_hierarchy places the elements in ascending start-line order
\* with ties kept in original order, and attaches each element to the
\* nearest preceding element whose range strictly contains it (candidate
\* start < element start and candidate end >= element end): of several
\* enclosing candidates the closest preceding one is the parent, and an
\* element with no such candidate is a root.
C17_NearestEnclosingParent ==
    hier_pc = "done" =>
        /\ Len(hier_all) = Len(hier_structure[Categories[1]]) + Len(hier_structure[Categories[2]])
        /\ \A i \in 1..Len(hier_all) :
            /\ hier_all[i].line = hier_structure[hier_all[i].src[1]][hier_all[i].src[2]].line
            /\ hier_all[i].line_end
                   = hier_structure[hier_all[i].src[1]][hier_all[i].src[2]].line_end
        /\ \A i, j \in 1..Len(hier_all) :
            i < j =>
                \/ StartOf(hier_all[i]) < StartOf(hier_all[j])
                \/ /\ StartOf(hier_all[i]) = StartOf(hier_all[j])
                   /\ OriginalIndex(hier_all[i]) < OriginalIndex(hier_all[j])
        /\ \A i \in 1..Len(hier_all) :
            LET candidates == EnclosingCandidates(hier_all, i)
                is_root == \E k \in 1..Len(hier_result) : hier_result[k] = i
            IN  IF candidates = {}
                THEN is_root /\ ParentsOf(hier_all, i) = {}
                ELSE /\ ~is_root
                     /\ ParentsOf(hier_all, i)
                            = {CHOOSE j \in candidates : \A c \in candidates : c <= j}

\* A build in which an element had two enclosing candidates and went to the
\* closer one, leaving one root
C17_Witness ==
    /\ hier_pc = "done"
    /\ \E i \in 1..Len(hier_all) :
        /\ Cardinality(EnclosingCandidates(hier_all, i)) >= 2
        /\ ParentsOf(hier_all, i) = {i - 1}
    /\ Len(hier_result) = 1

\* The source could not be parsed
ParseFailed == source = "malformed" \/ language \notin SupportedLanguages

\* C16: structure extraction from a source that cannot be parsed (malformed
\* source or unsupported language) returns an empty collection that carries
\* an explicit error marker.
C16_ParseFailureTaggedEmpty ==
    (extract_pc = "done" /\ extract_op \in {"get_structure", "analyze_structure"}
     /\ ParseFailed) =>
        LET structure == Val(extract_result)
        IN  /\ "error" \in DOMAIN structure
            /\ \A k \in DOMAIN structure \ {"error"} : structure[k] = <<>>

\* The classes a declared type admits, alternative by alternative
Alternatives(tp) ==
    CASE tp \in {"int", "str", "list"} -> {tp}
      [] tp \in {"Optional[int]", "int | None"} -> {"int", "NoneType"}
      [] tp = "Union[int, str]" -> {"int", "str"}
      [] tp = "List[str]" -> {"list"}
      [] tp = "Any" -> ValueClasses

\* The errors of the list that are about a property
ErrorsAbout(prop_name) ==
    {k \in 1..Len(errors) : errors[k][1] = "invalid type" /\ errors[k][2] = prop_name}

\* C18: validate_entity returns its findings as a list of strings and never
\* raises: a declared property that is missing from the instance adds no
\* entry to the list, and a present property whose value matches none of
\* the declared alternative types adds an error string.
C18_ValidationErrorsAsData ==
    /\ validate_pc # "raised"
    /\ (validate_pc = "done" /\ validated_type = "function") =>
            LET properties == Lookup(types, validated_type).properties
            IN  \A i \in 1..Len(properties) :
                    IF ~HasKey(entity_data, properties[i].key)
                    THEN ErrorsAbout(properties[i].key) = {}
                    ELSE Lookup(entity_data, properties[i].key)
                             \notin Alternatives(properties[i].value)
                         => ErrorsAbout(properties[i].key) # {}

\* The places <<location, entry>> of the modules that hold the rule class
FilesHolding(rule) ==
    {place \in (1..Len(rule_locations)) \X (1..MaxRuleFiles + 1) :
        /\ place[2] <= Len(rule_locations[place[1]].files)
        /\ rule_locations[place[1]].files[place[2]] = [kind |-> "rule", rule |-> Some(rule)]}

\* C19: during discovery, a rule definition that fails to load (its module
\* raises on import, or holds no valid rule class named after the file) is
\* skipped, and every other loadable rule in every scanned location is
\* still registered: _rules holds each rule class once per module that
\* holds it, and nothing else.
C19_FailedRuleSkippedOthersRegistered ==
    discover_pc = "done" =>
        /\ \A rule \in DiscoverableRules :
            Cardinality({k \in 1..Len(_rules) : _rules[k] = rule})
                = Cardinality(FilesHolding(rule))
        /\ \A k \in 1..Len(_rules) : FilesHolding(_rules[k]) # {}

\* A scan that met a module raising on import before a rule of the built-in
\* directory and registered that rule and the one of a later directory
C19_Witness ==
    /\ discover_pc = "done"
    /\ Len(rule_locations[1].files) = 2
    /\ rule_locations[1].files[1].kind = "raises"
    /\ rule_locations[1].files[2].kind = "rule"
    /\ \E l \in 2..3 : rule_locations[l].files # <<>> /\ rule_locations[l].files[1].kind = "rule"
    /\ Len(_rules) = 2
    /\ discover_log = <<"error">>

\* C21: after discovery every rule code identifies exactly one rule: no two
\* entries of the registry's rule list have the same code, and the rule
\* get_rule(code) returns is the one the engine runs for that code, for
\* every combination of built-in, user-level and project-level locations.
C21_CodeIdentifiesOneRule ==
    discover_pc = "done" =>
        /\ \A i, j \in 1..Len(_rules) : _rules[i].code = _rules[j].code => i = j
        /\ \A k \in 1..Len(_rules) :
            get_rule(_rules_by_code, _rules[k].code) = Some(_rules[k])

\* C22: build_index is a pure function of the relationship data it is given:
\* after the call every edge list in the caller's input mapping holds exactly
\* the edges it held before the call, for every input, including inputs
\* that already hold edges under a reverse relationship name.
C22_BuildIndexLeavesInputAlone ==
    rel_pc = "indexed" =>
        \A name \in DOMAIN data_given : relationship_data[name] = data_given[name]

\* C20: in every category of the structure the extractor returns, the
\* elements are in source order: start lines never go down along the list,
\* for every parse tree and every mix of node types mapped to the category.
C20_CategoriesInSourceOrder ==
    (extract_pc = "done" /\ extract_op = "get_structure") =>
        \A category \in DOMAIN Val(extract_result) :
            LET elements == Val(extract_result)[category]
            IN  \A k \in 1..(Len(elements) - 1) : elements[k].line <= elements[k + 1].line

\* The records the navigation arguments select, by position
Selected(records, nav) ==
    LET n == Len(records)
        FromTo(a, b) == [k \in 1..(IF b >= a THEN b - a + 1 ELSE 0) |-> records[a + k - 1]]
    IN  IF nav[1] # None THEN FromTo(1, Min(Val(nav[1]), n))
        ELSE IF nav[2] # None THEN FromTo(n - Min(Val(nav[2]), n) + 1, n)
        ELSE IF nav[3] # None THEN FromTo(Val(nav[3])[1], Min(Val(nav[3])[2], n))
        ELSE FromTo(1, Min(DEFAULT_LIMIT, n))

\* C23: get_structure always returns the summary record as the first entry
\* of 'records', whatever head, tail or range is given, followed by exactly
\* the records the navigation argument selects (the first N for head=N with
\* N >= 0, the last N for tail=N, positions a..b for range=(a,b)), or by the
\* first 10 records when no navigation argument is given.
C23_SummaryThenSelection ==
    /\ jsonl_pc # "raised"
    /\ (/\ jsonl_pc = "structure"
        /\ jsonl_nav[1] = None \/ Val(jsonl_nav[1]) >= 0
        /\ jsonl_nav[2] = None \/ Val(jsonl_nav[2]) >= 0) =>
            /\ Val(jsonl_result)[1].name = "Summary"
            /\ Tail(Val(jsonl_result)) = Selected(FirstPass(jsonl_lines).all_records, jsonl_nav)

\* C30: record numbering is the same in both JSONL operations: for every
\* file, including files with blank or invalid lines, the record that
\* get_structure labels '#k' is the record (same source line) that
\* extract_element returns for record number k.
C30_SameRecordNumbering ==
    (jsonl_pc = "extracted" /\ ~FirstPass(jsonl_lines).raised) =>
        \A k \in 1..Len(FirstPass(jsonl_lines).all_records) :
            LET record == FirstPass(jsonl_lines).all_records[k]
            IN  record.number = Some(jsonl_num) =>
                    /\ jsonl_result # None
                    /\ Val(jsonl_result).line_start = record.line

\* C24: the update check contacts PyPI at most once per day: over any
\* sequence of check_for_updates calls (with the opt-out unset), once one
\* call has issued the request no call within the following 24 hours issues
\* another, whether or not the request succeeded.
C24_AtMostOneRequestPerDay ==
    \A i, j \in 1..Len(requests) : i < j => requests[j] - requests[i] >= Day

\* C26: a failed resolution is never recorded as success: if
\* resolve_inheritance raises the circular-inheritance error, the registry
\* stays unresolved, and every later resolve_inheritance call on the same
\* registered types raises the error again instead of returning normally.
C26_FailedResolutionStaysFailed ==
    raises > 0 =>
        /\ ~_inheritance_resolved
        /\ types_pc \notin {"returned", "cached"}
        /\ resolutions = 0
        /\ types_pc = "resolving" => ENABLED TypesNext

\* A second call that raised the error again
C26_Witness == types_pc = "raised" /\ raises = 2

\* C25: the registry queries is_subtype_of(child, parent) and
\* get_subtypes(name) terminate with a result for every set of registered
\* types, including a set whose inherits links form a cycle or a type that
\* inherits itself.
C25_QueriesReturn == query_pc # "raised"

\* C27: an exception raised while check_file constructs a rule or evaluates
\* its applicability test (matches_target) is isolated like an exception in
\* check: check_file does not raise, and the remaining active rules are
\* still run with their detections returned.
C27_ApplicabilityFailureIsolated ==
    /\ rules_pc # "raised"
    /\ rules_pc = "returned" => rules_i = Len(rules_local) + 1

\* C28: in --stdin mode every listed path that is an existing regular file
\* is passed to handle_file, whatever the other lines contain: an entry that
\* cannot be processed (missing path, directory, or file with no analyzer)
\* does not stop the processing of the entries after it.
C28_EveryRegularFileHandled ==
    (stdin_pc \in {"exit0", "exit1"} /\ ~args_element) =>
        handled = SelectSeq([k \in 1..Len(stdin_lines) |-> k],
                            LAMBDA k : IsFile(stdin_lines[k]))

\* C29: a pre-order walk of the forest returned by build_hierarchy (the
\* order in which render_outline prints it) visits the elements in
\* non-decreasing start-line order, for every input, including inputs where
\* several elements start on the same line.
C29_PreorderInLineOrder ==
    hier_pc = "done" =>
        \A i, j \in 1..Len(Flattened) :
            i < j => GetLine(hier_all[Flattened[i]]) <= GetLine(hier_all[Flattened[j]])

====
